---- MODULE Spec2Model ----
(***************************************************************************)
(* Model of the EXOS deployment scripts configure_vlans_v2.py ("v2") and   *)
(* configure_vlans_exos.py ("exos"): ssh_connect, send_command, the        *)
(* command loop and the verification step of deploy_switch.                *)
(*                                                                         *)
(* Device text is a sequence of tokens (words, punctuation, "\n").  The    *)
(* Python test `marker in output` is contiguous-subsequence matching, with *)
(* the markers cut at the same token boundaries ("Error:" is the tokens    *)
(* "Error", ":" so that the exos marker "Error" matches wherever the v2    *)
(* marker "Error:" does).  Time is counted in ticks of 0.1 s.              *)
(***************************************************************************)
EXTENDS Integers, Sequences, FiniteSets, TLC

\* ------------------------------------------------------------------ bounds
MaxCmds == 5        \* longest command list build_commands hands to the loop
MaxTextLen == 3     \* longest device text (tokens) in the classifier runs
MaxPoll == 60       \* horizon (ticks) up to which the polling loop is followed
MaxBurst == 2       \* most chunks the device delivers during the base wait
MaxCmdLen == 4      \* longest command (words) in the wait-policy runs
MaxTargets == 3     \* switches of the inventory followed in the batch runs
MainCmds == 1       \* length of each switch's command list in the batch runs
ErrCmds == 2        \* longest command list in the error-summary runs
MaxOverrun == 2     \* by how much the longest device text exceeds the excerpt
MaxPorts == 2       \* trunk ports of a generated port configuration
MaxItems == 2       \* VLANs, trunk ports and access ports of an inventory switch
SeqCmds == 2        \* commands of the loop followed through send_command

\* --------------------------------------------------------- text primitives
Min(a, b) == IF a < b THEN a ELSE b

\* Python `marker in text`: marker is a contiguous part of text
Contains(text, marker) ==
    \E k \in 0..(Len(text) - Len(marker)) :
        \A j \in 1..Len(marker) : text[k + j] = marker[j]

Whitespace == {"\n", " "}

RECURSIVE LStrip(_)
LStrip(text) ==
    IF text # <<>> /\ Head(text) \in Whitespace THEN LStrip(Tail(text)) ELSE text

RECURSIVE RStrip(_)
RStrip(text) ==
    IF text # <<>> /\ text[Len(text)] \in Whitespace
    THEN RStrip(SubSeq(text, 1, Len(text) - 1))
    ELSE text

\* str.strip()
Strip(text) == RStrip(LStrip(text))

\* text[:n]
Prefix(text, n) == SubSeq(text, 1, Min(Len(text), n))

\* ------------------------------------------------------- marker vocabulary
\* v2 deploy_switch: has_error
ErrorMarkers ==
    { <<"Error", ":">>, <<"Invalid", "input">>, <<"Cannot">>, <<"Failed">>,
      <<"Unknown", "command">> }

\* v2 deploy_switch: is_warning
WarningMarkers == { <<"already", "exists">>, <<"already", "a", "member">> }

\* exos deploy_switch: "Error" in output or "Invalid" in output
ExosErrorMarkers == { <<"Error">>, <<"Invalid">> }

\* v2: "3 packets received" in ping_out or "bytes from 10.10.10.1" in ping_out
PingMarkers == { <<"3", "packets", "received">>, <<"bytes", "from", "10.10.10.1">> }

\* exos: "3 packets received" in gw_ping or "bytes from" in gw_ping
ExosPingMarkers == { <<"3", "packets", "received">>, <<"bytes", "from">> }

ExcerptLen == 100

\* has_error matching "Failed" without regard to case
has_error_CaseFold(output) ==
    \E err \in ErrorMarkers \cup { <<"failed">> } : Contains(output, err)

has_error(output) == \E err \in ErrorMarkers : Contains(output, err)

\* is_warning without the "already exists" test
is_warning_MemberOnly(output) == Contains(output, <<"already", "a", "member">>)

is_warning(output) == \E w \in WarningMarkers : Contains(output, w)

exos_has_error(output) == \E err \in ExosErrorMarkers : Contains(output, err)

\* the classifier with the error test ahead of the warning test
Verdict_ErrorFirst(v, output) ==
    IF v = "v2"
    THEN IF has_error(output) THEN "Error"
         ELSE IF is_warning(output) THEN "BenignWarning"
         ELSE "Success"
    ELSE IF exos_has_error(output) THEN "Error" ELSE "Success"

\* the branch of the if / elif / else that deploy_switch takes for one output
Verdict(v, output) ==
    IF v = "v2"
    THEN IF is_warning(output) THEN "BenignWarning"
         ELSE IF has_error(output) THEN "Error"
         ELSE "Success"
    ELSE IF exos_has_error(output) THEN "Error" ELSE "Success"

\* the entry carrying the whole output
ErrorEntry_Untruncated(v, cmd, output) ==
    [ kind |-> "CMD", cmd |-> cmd, text |-> Strip(output) ]

\* the entry appended to result["errors"] for a command classified Error
ErrorEntry(v, cmd, output) ==
    [ kind |-> "CMD", cmd |-> cmd,
      text |-> IF v = "v2" THEN Prefix(Strip(output), ExcerptLen) ELSE Strip(output) ]

\* the entry appended by `except Exception as e`: str(e)
ExcEntry(e) == [ kind |-> "EXC", cmd |-> <<>>, text |-> <<e>> ]

PingPassed(v, ping_out) ==
    \E m \in (IF v = "v2" THEN PingMarkers ELSE ExosPingMarkers) : Contains(ping_out, m)


\* ------------------------------------------------------------------ inputs
\* names of the SWITCHES inventory, in order
SWITCHES == << "SW1-CORE", "SW2-DIST", "SW3-DIST", "SW4-ACCESS", "SW5-ACCESS" >>

\* head of build_commands("SW1-CORE"), v2, each command as its words
CommandPool ==
    << <<"create", "vlan", "CORP_NET", "tag", "20">>,
       <<"create", "vlan", "DMZ_NET", "tag", "30">>,
       <<"create", "vlan", "GUEST_NET", "tag", "40">>,
       <<"configure", "vlan", "MGMT_NET", "add", "ports", "1", "tagged">>,
       <<"configure", "vlan", "CORP_NET", "add", "ports", "1", "tagged">>,
       <<"configure", "vlan", "DMZ_NET", "add", "ports", "1", "tagged">>,
       <<"configure", "vlan", "GUEST_NET", "add", "ports", "1", "tagged">>,
       <<"configure", "vlan", "MGMT_NET", "add", "ports", "2", "tagged">> >>

CommandLists == { SubSeq(CommandPool, 1, n) : n \in 1..Min(MaxCmds, Len(CommandPool)) }

\* device answers to a configuration command
OutPrompt == <<"\n", "ok", "\n">>
OutInvalid == <<"Invalid", "input", "\n">>
OutErrorExists == <<"Error", ":", "already", "exists">>
OutMember == <<"already", "a", "member">>
OutLowerFailed == <<"failed">>
OutErrorWord == <<"Error", "in", "config">>

Outputs == { OutPrompt, OutInvalid, OutErrorExists, OutMember, OutLowerFailed, OutErrorWord }

\* a device the commands were applied to before answers each of them with an
\* EXOS "... already exists" or "... already a member" message
Answers(dev, outs) ==
    { o \in outs : dev = "configured" =>
                      \/ Contains(o, <<"already", "exists">>)
                      \/ Contains(o, <<"already", "a", "member">>) }

\* device answers to a ping probe
PingOutputs ==
    { <<"3", "packets", "received">>, <<"64", "bytes", "from", "10.10.10.1">>,
      <<"0", "packets", "received">>, <<>> }

\* device answers to a show probe
ShowOutputs == { <<"\n", "ok", "\n">> }

\* reasons client.connect() raises
ConnectErrors == { "Authentication failed.", "timed out", "Connection refused" }

\* every device text of at most MaxTextLen tokens over the marker alphabet
Alphabet ==
    { "already", "exists", "a", "member", "Error", ":", "Invalid", "input", "Cannot",
      "Failed", "Unknown", "command", "failed", "ok" }

AllTexts == UNION { [1..n -> Alphabet] : n \in 0..MaxTextLen }

\* ------------------------------------------------------------ deploy_switch
VARIABLES
    variant,     \* which script runs: "v2" or "exos"
    commands,    \* the list build_commands returned
    name,        \* switch["name"] of the device being deployed
    device,      \* "fresh", or "configured": the commands were applied before
    pc,          \* position in deploy_switch
    attempt,     \* client.connect() calls made by ssh_connect
    sleeps,      \* inter-attempt sleeps made by ssh_connect
    fails,       \* per failed attempt, the reason client.connect() raised
    client,      \* "none" (never connected), "open", "closed"
    shell,       \* TRUE once invoke_shell returned and the banner was drained
    idx,         \* iterations of the command loop that finished
    sent,        \* lines the shell transmitted, in order
    returned,    \* send_command calls of the command loop that returned
    output,      \* text the last send_command returned
    verdicts,    \* per finished iteration, the branch the classifier took
    probes,      \* verify step: texts of the probes that returned
    result       \* the result dict

\* ssh_connect(host, username, password, retries=3); exos connects once
RETRIES == 3

\* range(0, retries + 1): one attempt too many
Retries_OneMore(v) == IF v = "v2" THEN RETRIES + 1 ELSE 1

Retries(v) == IF v = "v2" THEN RETRIES ELSE 1

PingGateway == <<"ping", "10.10.10.1", "count", "3">>

PingCore == <<"ping", "10.10.10.11", "count", "3">>

\* the probes of the verify step, in order
Probes(v) ==
    IF v = "v2"
    THEN << PingGateway >>
    ELSE << <<"show", "vlan">>, <<"show", "ports", "information">>, <<"show", "iproute">>,
            PingGateway, PingCore >>

\* position of the gateway ping among the probes
GatewayProbe(v) == IF v = "v2" THEN 1 ELSE 4

IsPing(cmd) == cmd \in { PingGateway, PingCore }

NewResult(switch) ==
    [ switch |-> switch, status |-> "unknown", commands_sent |-> 0, errors |-> <<>>,
      verification |-> <<>> ]

InitResult == NewResult(name)

\* the handler replacing the errors list by the exception text
Handler_ResetErrors(res, e) == [ res EXCEPT !.status = "failed", !.errors = << ExcEntry(e) >> ]

\* the handler recording the exception text without setting the status
Handler_KeepStatus(res, e) == [ res EXCEPT !.errors = Append(@, ExcEntry(e)) ]

\* except Exception as e: result["status"] = "failed"; errors.append(str(e))
Handler(res, e) ==
    [ res EXCEPT !.status = "failed", !.errors = Append(@, ExcEntry(e)) ]

\* the list walked from its end
NextCmd_Reversed(cmds, done) == cmds[Len(cmds) - done]

\* for cmd in commands: the command of the iteration after `done` finished ones
NextCmd(cmds, done) == cmds[done + 1]

\* the loop left for the verify step after its first iteration
AfterIteration_VerifyAtOnce(done, n, verdict) == "verify"

\* the loop with a break on an Error verdict
AfterIteration_BreakOnError(done, n, verdict) ==
    IF done = n \/ verdict = "Error" THEN "verify" ELSE "loop"

\* for cmd in commands: where control goes after an iteration
AfterIteration(done, n, verdict) == IF done = n THEN "verify" ELSE "loop"

\* v2 counting the way exos does: commands_sent = len(commands) after the loop
RecordIteration_CountAtEnd(v, res, cmd, out, n, last) ==
    LET errs == IF Verdict(v, out) = "Error"
                THEN Append(res.errors, ErrorEntry(v, cmd, out))
                ELSE res.errors
        cnt == IF last THEN n ELSE res.commands_sent
    IN  [ res EXCEPT !.errors = errs, !.commands_sent = cnt ]

\* the body of the command loop after send_command returned `out`;
\* `last` is true in the final iteration (exos then sets commands_sent)
RecordIteration(v, res, cmd, out, n, last) ==
    LET errs == IF Verdict(v, out) = "Error"
                THEN Append(res.errors, ErrorEntry(v, cmd, out))
                ELSE res.errors
        cnt == IF v = "v2" THEN res.commands_sent + 1
               ELSE IF last THEN n ELSE res.commands_sent
    IN  [ res EXCEPT !.errors = errs, !.commands_sent = cnt ]

\* the status decided by looking for a failure text instead of a passing one
VerifyStatus_FailureText(v, res, gw_ping) ==
    IF Contains(gw_ping, <<"0", "packets", "received">>) THEN "partial" ELSE "success"

\* the status the verify step sets from the gateway ping
VerifyStatus(v, res, gw_ping) == IF PingPassed(v, gw_ping) THEN "success" ELSE "partial"


\* ------------------------------------------------------------- send_command
VARIABLES
    command,     \* the command send_command was called with
    wait_arg,    \* its wait argument, NONE when the caller gave none
    sc_pc,       \* position in send_command: "idle", "call", "sleep", "poll", "returned"
    now,         \* time.time(), in ticks since the call
    wait,        \* the base wait in use
    tx_at,       \* time of each shell.send of this call
    loop_start,  \* time the polling loop was entered
    deadline,    \* the polling deadline
    pending,     \* chunks the channel holds ready, oldest first, each named by
                 \* its arrival number (recv_ready() iff pending # <<>>)
    chunks,      \* chunks appended to output, in the order they were appended
    drained,     \* chunks clear_buffer read and threw away
    wire         \* what shell.send put on the channel, token by token

NONE == -1

\* COMMAND_TIMEOUTS in insertion order, in ticks
COMMAND_TIMEOUTS ==
    << [ key |-> <<"configure", "ssh2", "key">>, timeout |-> 250 ],
       [ key |-> <<"save", "configuration">>, timeout |-> 80 ],
       [ key |-> <<"enable", "ssh2">>, timeout |-> 30 ],
       [ key |-> <<"default">>, timeout |-> 15 ] >>

DefaultTimeout == 15

\* the lookup without the early return: the last matching key wins
get_timeout_LastMatch(cmd) ==
    LET hits == { k \in 1..Len(COMMAND_TIMEOUTS) : Contains(cmd, COMMAND_TIMEOUTS[k].key) }
    IN  IF hits = {} THEN DefaultTimeout
        ELSE COMMAND_TIMEOUTS[CHOOSE k \in hits : \A h \in hits : k >= h].timeout

get_timeout(cmd) ==
    LET hits == { k \in 1..Len(COMMAND_TIMEOUTS) : Contains(cmd, COMMAND_TIMEOUTS[k].key) }
    IN  IF hits = {} THEN DefaultTimeout
        ELSE COMMAND_TIMEOUTS[CHOOSE k \in hits : \A h \in hits : k <= h].timeout

PollDeadline == 20     \* deadline = time.time() + 2.0
GraceWindow == 5       \* deadline = time.time() + 0.5
PollInterval == 1      \* time.sleep(0.1)

\* the command sent without its line terminator
Line_Bare(cmd) == cmd

\* shell.send(command + "\n"): the text handed to the channel
Line(cmd) == cmd \o << "\n" >>

\* the channel after the device delivered n more chunks: they queue up
\* behind the ones not read yet
Arrive(buf, got, n) == buf \o [ k \in 1..n |-> Len(got) + Len(buf) + k ]

\* shell.recv(4096): the oldest chunk the channel holds
Recv(buf) == Head(buf)

\* the deadline after a chunk was read at time t
DeadlineAfterRead(t, old) == t + GraceWindow

\* --------------------------------------------------------------------- main
VARIABLES
    args,        \* parsed arguments: dry_run, switch
    targets,     \* names of the targets, in order
    tpos,        \* targets main is done with
    calls,       \* names deploy_switch was called with, in order
    report,      \* report["results"]
    reach,       \* dry run: what test_connectivity returned per target
    main_pc,     \* position in main: "none" (not running), "start", "deploy", "dry", "exit"
    exit_code    \* what main returns / sys.exit is given, NONE before

\* ------------------------------------------- the other programs' state
VARIABLES
    pf_pc,       \* run_full_setup: "none" (not running), "start", a step's name, "finally", "returned", "raised"
    connection,  \* self.connection: "none" (None) or "open" (a ConnectHandler)
    steps_run,   \* the steps run_full_setup has called, in order
    item,        \* scripts of the current step whose push has returned
    inflight,    \* scripts sent whose send_command has not returned
    rule_list,   \* $config['filter']['rule'] on the firewall, by descr
    disconnects, \* calls of self.disconnect()
    closes,      \* calls of self.connection.disconnect()
    exc,         \* the exception under way and the step that raised it, type "none" without one
    vc_pc,       \* VLANConfigurator.configure_switch: "none", "connect", "vlans", "trunks", "access", "save", "disconnect", "returned"
    vc_switch,   \* its argument: vlans, trunk_ports, access_ports
    vc_result,   \* its result dictionary
    vc_tried,    \* the items it sent to the switch, in order, each with its phase
    sn_pc,       \* SyslogNTPConfigurator.configure_switch: "none", "connect", "syslog", "ntp", "save", "disconnect", "returned"
    sn_switch,   \* its argument's hostname
    sn_result,   \* its result dictionary
    vs_pc,       \* validate_switch: "none", "connect", "shell", "check", "close", "returned"
    vs_switch,   \* its argument: name, expected_vlans
    vs_check,    \* the checks whose outcome is recorded
    vs_result,   \* its result dictionary
    bc_variant,  \* build_commands: the script it belongs to
    bc_cfg,      \* the switch's PORT_CONFIG entry
    built        \* the list build_commands returned, empty before the call

pfvars == << pf_pc, connection, steps_run, item, inflight, rule_list, disconnects, closes, exc >>

vcvars == << vc_pc, vc_switch, vc_result, vc_tried >>

snvars == << sn_pc, sn_switch, sn_result >>

vsvars == << vs_pc, vs_switch, vs_check, vs_result >>

bvars == << bc_variant, bc_cfg, built >>

xvars == << pfvars, vcvars, snvars, vsvars, bvars >>

dvars ==
    << variant, commands, name, device, pc, attempt, sleeps, fails, client, shell, idx, sent, returned, output,
       verdicts, probes, result >>

svars ==
    << command, wait_arg, sc_pc, now, wait, tx_at, loop_start, deadline, pending, chunks,
       drained, wire >>

mvars == << args, targets, tpos, calls, report, reach, main_pc, exit_code >>

vars == << dvars, svars, mvars, xvars >>

\* args.switch when --switch is not given
NoSwitch == ""

\* deploy_switch runs on its own, main is not followed
MainIdle ==
    /\ args = [ dry_run |-> FALSE, switch |-> NoSwitch ]
    /\ targets = << SWITCHES[1] >>
    /\ tpos = 0
    /\ calls = << SWITCHES[1] >>
    /\ report = <<>>
    /\ reach = <<>>
    /\ main_pc = "none"
    /\ exit_code = NONE

\* none of the other programs is running
PfIdle ==
    /\ pf_pc = "none"
    /\ connection = "none"
    /\ steps_run = << >>
    /\ item = 0
    /\ inflight = 0
    /\ rule_list = << >>
    /\ disconnects = 0
    /\ closes = 0
    /\ exc = [ type |-> "none", at |-> "none" ]

VcIdle ==
    /\ vc_pc = "none"
    /\ vc_switch = << >>
    /\ vc_result = << >>
    /\ vc_tried = << >>

SnIdle ==
    /\ sn_pc = "none"
    /\ sn_switch = NoSwitch
    /\ sn_result = << >>

VsIdle ==
    /\ vs_pc = "none"
    /\ vs_switch = << >>
    /\ vs_check = 0
    /\ vs_result = << >>

BuildIdle ==
    /\ bc_variant = "v2"
    /\ bc_cfg = << >>
    /\ built = << >>

OthersIdle == PfIdle /\ VcIdle /\ SnIdle /\ VsIdle /\ BuildIdle

\* no send_command call is being followed
SendIdle ==
    /\ command = <<>>
    /\ wait_arg = NONE
    /\ sc_pc = "idle"
    /\ now = 0
    /\ wait = 0
    /\ tx_at = <<>>
    /\ loop_start = 0
    /\ deadline = 0
    /\ pending = <<>>
    /\ chunks = <<>>
    /\ drained = 0
    /\ wire = <<>>

Init ==
    /\ variant \in {"v2", "exos"}
    /\ commands \in CommandLists
    /\ name = SWITCHES[1]
    /\ device \in {"fresh", "configured"}
    /\ pc = "connect"
    /\ attempt = 0
    /\ sleeps = 0
    /\ fails = <<>>
    /\ client = "none"
    /\ shell = FALSE
    /\ idx = 0
    /\ sent = <<>>
    /\ returned = 0
    /\ output = <<>>
    /\ verdicts = <<>>
    /\ probes = <<>>
    /\ result = InitResult
    /\ MainIdle
    /\ OthersIdle
    /\ SendIdle

\* a sleep after every failed attempt, the last one too
SleepAfter_Always(att, retries) == TRUE

\* ssh_connect: if attempt < retries: time.sleep(3)
SleepAfter(att, retries) == att < retries

\* ssh_connect giving up at once when the credentials are rejected
GoesOn_AuthIsFatal(v, att, why) == att < Retries(v) /\ why # "Authentication failed."

\* ssh_connect: `except Exception` catches every reason, and the for loop
\* goes on while attempts remain
GoesOn(v, att, why) == att < Retries(v)

\* the for loop going on after a successful attempt
AfterConnectOk_TryAgain == "connect"

\* ssh_connect: return client, which leaves the for loop; invoke_shell is next
AfterConnectOk == "shell"

\* ssh_connect: client.connect() succeeds and the client is returned
ConnectOk ==
    /\ pc = "connect"
    /\ attempt < Retries(variant)
    /\ attempt' = attempt + 1
    /\ client' = "open"
    /\ pc' = AfterConnectOk
    /\ UNCHANGED << variant, commands, name, device, fails, sleeps, shell, idx, sent, returned, output, verdicts,
                    probes, result >>
    /\ UNCHANGED << svars, mvars, xvars >>

\* the text of the exception deploy_switch catches when connecting failed for
\* the last time with reason `why`: v2 raises its own ConnectionError, exos
\* lets the error of client.connect() propagate
ConnectException(v, why) == IF v = "v2" THEN "Could not connect" ELSE why

\* ssh_connect: client.connect() raises for a reason of `kinds`; v2 sleeps and
\* retries while attempts remain, then raises ConnectionError; exos lets the
\* error propagate
ConnectFail(kinds) ==
    /\ pc = "connect"
    /\ attempt < Retries(variant)
    /\ attempt' = attempt + 1
    /\ sleeps' = IF variant = "v2" /\ SleepAfter(attempt + 1, Retries(variant))
                 THEN sleeps + 1 ELSE sleeps
    /\ \E why \in kinds :
         /\ fails' = Append(fails, why)
         /\ IF GoesOn(variant, attempt + 1, why)
            THEN UNCHANGED << pc, result >>
            ELSE /\ result' = Handler(result, ConnectException(variant, why))
                 /\ pc' = "done"
    /\ UNCHANGED << variant, commands, name, device, client, shell, idx, sent, returned, output, verdicts,
                    probes >>
    /\ UNCHANGED << svars, mvars, xvars >>

\* client.invoke_shell(), the settle sleep and the drain of the banner
OpenShell ==
    /\ pc = "shell"
    /\ shell' = TRUE
    /\ pc' = "loop"
    /\ UNCHANGED << variant, commands, name, device, fails, attempt, sleeps, client, idx, sent, returned,
                    output, verdicts, probes, result >>
    /\ UNCHANGED << svars, mvars, xvars >>

\* client.invoke_shell() raises
OpenShellFail ==
    /\ pc = "shell"
    /\ result' = Handler(result, "Channel closed.")
    /\ pc' = "done"
    /\ UNCHANGED << variant, commands, name, device, fails, attempt, sleeps, client, shell, idx, sent, returned,
                    output, verdicts, probes >>
    /\ UNCHANGED << svars, mvars, xvars >>

\* one iteration of the command loop: send_command returns a text from `outs`
LoopIteration(outs) ==
    /\ pc = "loop"
    /\ idx < Len(commands)
    /\ \E out \in Answers(device, outs) :
         LET cmd == NextCmd(commands, idx)
             next == AfterIteration(idx + 1, Len(commands), Verdict(variant, out))
         IN  /\ sent' = Append(sent, cmd)
             /\ returned' = returned + 1
             /\ output' = out
             /\ verdicts' = Append(verdicts, Verdict(variant, out))
             /\ result' = RecordIteration(variant, result, cmd, out, Len(commands),
                                          next = "verify")
             /\ idx' = idx + 1
             /\ pc' = next
    /\ UNCHANGED << variant, commands, name, device, fails, attempt, sleeps, client, shell, probes >>
    /\ UNCHANGED << svars, mvars, xvars >>

\* send_command raises in the command loop: in shell.send (nothing transmitted)
\* or in recv (the line was transmitted)
LoopDrop ==
    /\ pc = "loop"
    /\ idx < Len(commands)
    /\ \E transmitted \in BOOLEAN :
         sent' = IF transmitted THEN Append(sent, NextCmd(commands, idx)) ELSE sent
    /\ result' = Handler(result, "Socket is closed")
    /\ pc' = "done"
    /\ UNCHANGED << variant, commands, name, device, fails, attempt, sleeps, client, shell, idx, returned, output,
                    verdicts, probes >>
    /\ UNCHANGED << svars, mvars, xvars >>

\* one probe of the verify step returns, a ping with a text from `pings`;
\* after the last one the status is set from the gateway ping and the client is
\* closed
VerifyProbe(pings) ==
    /\ pc = "verify"
    /\ Len(probes) < Len(Probes(variant))
    /\ LET cmd == Probes(variant)[Len(probes) + 1]
       IN  /\ sent' = Append(sent, cmd)
           /\ \E out \in (IF IsPing(cmd) THEN pings ELSE ShowOutputs) :
                LET got == Append(probes, out)
                IN  /\ output' = out
                    /\ probes' = got
                    /\ IF Len(got) = Len(Probes(variant))
                       THEN /\ result' =
                                 [ result EXCEPT
                                     !.verification = IF variant = "v2" THEN @ ELSE got,
                                     !.status = VerifyStatus(variant, result,
                                                             got[GatewayProbe(variant)]) ]
                            /\ client' = "closed"
                            /\ pc' = "done"
                       ELSE UNCHANGED << result, client, pc >>
    /\ UNCHANGED << variant, commands, name, device, fails, attempt, sleeps, shell, idx, returned, verdicts >>
    /\ UNCHANGED << svars, mvars, xvars >>

\* send_command raises in the verify step
VerifyDrop ==
    /\ pc = "verify"
    /\ Len(probes) < Len(Probes(variant))
    /\ \E transmitted \in BOOLEAN :
         sent' = IF transmitted THEN Append(sent, Probes(variant)[Len(probes) + 1])
                 ELSE sent
    /\ result' = Handler(result, "Socket is closed")
    /\ pc' = "done"
    /\ UNCHANGED << variant, commands, name, device, fails, attempt, sleeps, client, shell, idx, returned, output,
                    verdicts, probes >>
    /\ UNCHANGED << svars, mvars, xvars >>

Next ==
    \/ ConnectOk
    \/ ConnectFail(ConnectErrors)
    \/ OpenShell
    \/ OpenShellFail
    \/ LoopIteration(Outputs)
    \/ LoopDrop
    \/ VerifyProbe(PingOutputs)
    \/ VerifyDrop

Spec == Init /\ [][Next]_vars


\* ------------------------------------------- the classifier on every text
\* deploy_switch at the top of the command loop of a one-command list
InitClassify ==
    /\ variant \in {"v2", "exos"}
    /\ commands = << CommandPool[1] >>
    /\ name = SWITCHES[1]
    /\ device = "fresh"
    /\ pc = "loop"
    /\ attempt = 1
    /\ sleeps = 0
    /\ fails = <<>>
    /\ client = "open"
    /\ shell = TRUE
    /\ idx = 0
    /\ sent = <<>>
    /\ returned = 0
    /\ output = <<>>
    /\ verdicts = <<>>
    /\ probes = <<>>
    /\ result = InitResult
    /\ MainIdle
    /\ OthersIdle
    /\ SendIdle

NextClassify == LoopIteration(AllTexts)

SpecClassify == InitClassify /\ [][NextClassify]_vars

\* ------------------------------------------------ send_command, step by step
SendCommands ==
    { <<"create", "vlan", "CORP_NET", "tag", "20">>, <<"save", "configuration">>,
      <<"enable", "ssh2">>, PingGateway }

\* explicit waits callers pass: none, 0 s, 0.5 s (exos loop), 6.0 s (v2 ping)
WaitArgs == { NONE, 0, 5, 60 }

\* send_command(shell, command, wait) is called on an open shell
InitSend ==
    /\ variant = "v2"
    /\ commands = << CommandPool[1] >>
    /\ name = SWITCHES[1]
    /\ device = "fresh"
    /\ pc = "loop"
    /\ attempt = 1
    /\ sleeps = 0
    /\ fails = <<>>
    /\ client = "open"
    /\ shell = TRUE
    /\ idx = 0
    /\ sent = <<>>
    /\ returned = 0
    /\ output = <<>>
    /\ verdicts = <<>>
    /\ probes = <<>>
    /\ result = InitResult
    /\ MainIdle
    /\ OthersIdle
    /\ command \in SendCommands
    /\ wait_arg \in WaitArgs
    /\ sc_pc = "call"
    /\ now = 0
    /\ wait = 0
    /\ tx_at = <<>>
    /\ loop_start = 0
    /\ deadline = 0
    /\ pending = <<>>
    /\ chunks = <<>>
    /\ drained = 0
    /\ wire = <<>>

\* if wait is None: wait = get_timeout(command); shell.send(command + "\n")
Transmit ==
    /\ sc_pc = "call"
    /\ wait' = IF wait_arg = NONE THEN get_timeout(command) ELSE wait_arg
    /\ tx_at' = Append(tx_at, now)
    /\ sent' = Append(sent, command)
    /\ wire' = wire \o Line(command)
    /\ sc_pc' = "sleep"
    /\ UNCHANGED << drained, command, wait_arg, now, loop_start, deadline, pending, chunks >>
    /\ UNCHANGED << variant, commands, name, device, fails, pc, attempt, sleeps, client, shell,
                    idx, returned, output, verdicts, probes, result >>
    /\ UNCHANGED << mvars, xvars >>

\* time.sleep(wait); output = ""; deadline = time.time() + 2.0
\* (the device may answer with some chunks meanwhile)
BaseWait ==
    /\ sc_pc = "sleep"
    /\ now' = now + wait
    /\ \E burst \in 0..MaxBurst : pending' = Arrive(pending, chunks, burst)
    /\ loop_start' = now'
    /\ deadline' = now' + PollDeadline
    /\ sc_pc' = "poll"
    /\ UNCHANGED << wire, drained, command, wait_arg, wait, tx_at, chunks >>
    /\ UNCHANGED << dvars, mvars, xvars >>

\* while time.time() < deadline: recv_ready() holds, a chunk is read
PollRead ==
    /\ sc_pc = "poll"
    /\ now < deadline
    /\ pending # <<>>
    /\ pending' = Tail(pending)
    /\ chunks' = Append(chunks, Recv(pending))
    /\ deadline' = DeadlineAfterRead(now, deadline)
    /\ UNCHANGED << wire, drained, command, wait_arg, sc_pc, now, wait, tx_at, loop_start >>
    /\ UNCHANGED << dvars, mvars, xvars >>

\* while time.time() < deadline: nothing ready, time.sleep(0.1)
\* (meanwhile the device delivers a number of chunks drawn from `late`)
PollSleep(late) ==
    /\ sc_pc = "poll"
    /\ now < deadline
    /\ pending = <<>>
    /\ now - loop_start < MaxPoll
    /\ now' = now + PollInterval
    /\ \E n \in late : pending' = Arrive(pending, chunks, n)
    /\ UNCHANGED << wire, drained, command, wait_arg, sc_pc, wait, tx_at, loop_start, deadline, chunks >>
    /\ UNCHANGED << dvars, mvars, xvars >>

\* the while condition fails: return output
PollExit ==
    /\ sc_pc = "poll"
    /\ now >= deadline
    /\ sc_pc' = "returned"
    /\ UNCHANGED << wire, drained, command, wait_arg, now, wait, tx_at, loop_start, deadline, pending,
                    chunks >>
    /\ UNCHANGED << dvars, mvars, xvars >>

\* chunks that may arrive during one sleep of the polling loop
LateChunks == {0, 1}

NextSend == Transmit \/ BaseWait \/ PollRead \/ PollSleep(LateChunks) \/ PollExit

SpecSend == InitSend /\ [][NextSend]_vars

\* ------------------------------------------ the wait policy on every command
KeyWords ==
    { "configure", "ssh2", "key", "save", "configuration", "enable", "default", "vlan" }

\* every command of at most MaxCmdLen words over the words of the policy keys
AllCommands == UNION { [1..n -> KeyWords] : n \in 0..MaxCmdLen }

\* send_command(shell, command) is called without a wait
InitTimeout ==
    /\ variant = "v2"
    /\ commands = << CommandPool[1] >>
    /\ name = SWITCHES[1]
    /\ device = "fresh"
    /\ pc = "loop"
    /\ attempt = 1
    /\ sleeps = 0
    /\ fails = <<>>
    /\ client = "open"
    /\ shell = TRUE
    /\ idx = 0
    /\ sent = <<>>
    /\ returned = 0
    /\ output = <<>>
    /\ verdicts = <<>>
    /\ probes = <<>>
    /\ result = InitResult
    /\ MainIdle
    /\ OthersIdle
    /\ command \in AllCommands
    /\ wait_arg = NONE
    /\ sc_pc = "call"
    /\ now = 0
    /\ wait = 0
    /\ tx_at = <<>>
    /\ loop_start = 0
    /\ deadline = 0
    /\ pending = <<>>
    /\ chunks = <<>>
    /\ drained = 0
    /\ wire = <<>>

NextTimeout == Transmit

SpecTimeout == InitTimeout /\ [][NextTimeout]_vars

\* ------------------------------------- the drain before the first command
\* the arrival number of every chunk the device sent unasked before the drain
\* finished (banner, message); the chunks that follow count from 1
BANNER == 0

\* time.sleep(2.0) in deploy_switch, time.sleep(1.0) in clear_buffer
SettleWindow == 30

\* lists of one command each, one per wait policy
DrainCommands == { << c >> : c \in SendCommands }

\* clear_buffer that reads nothing
DrainGoesOn_Never(buf) == FALSE

\* clear_buffer: while shell.recv_ready()
DrainGoesOn(buf) == buf # <<>>

\* ssh_connect returned the client; invoke_shell comes next
InitDrain ==
    /\ variant = "v2"
    /\ commands \in DrainCommands
    /\ name = SWITCHES[1]
    /\ device = "fresh"
    /\ pc = "shell"
    /\ attempt = 1
    /\ sleeps = 0
    /\ fails = <<>>
    /\ client = "open"
    /\ shell = FALSE
    /\ idx = 0
    /\ sent = <<>>
    /\ returned = 0
    /\ output = <<>>
    /\ verdicts = <<>>
    /\ probes = <<>>
    /\ result = InitResult
    /\ MainIdle
    /\ OthersIdle
    /\ SendIdle

\* shell = client.invoke_shell(); time.sleep(2.0); clear_buffer: time.sleep(1.0)
\* (the device sends its banner in some chunks meanwhile)
Settle ==
    /\ pc = "shell"
    /\ now' = now + SettleWindow
    /\ \E burst \in 0..MaxBurst : pending' = [ k \in 1..burst |-> BANNER ]
    /\ pc' = "drain"
    /\ UNCHANGED << wire, drained, command, wait_arg, sc_pc, wait, tx_at, loop_start, deadline, chunks >>
    /\ UNCHANGED << variant, commands, name, device, fails, attempt, sleeps, client, shell, idx,
                    sent, returned, output, verdicts, probes, result >>
    /\ UNCHANGED << mvars, xvars >>

\* clear_buffer: recv_ready() holds, shell.recv(4096) is thrown away
\* (one more unasked chunk may arrive meanwhile)
DrainRead ==
    /\ pc = "drain"
    /\ DrainGoesOn(pending)
    /\ drained' = drained + 1
    /\ \E n \in (IF drained < MaxBurst THEN {0, 1} ELSE {0}) :
         pending' = Tail(pending) \o [ k \in 1..n |-> BANNER ]
    /\ UNCHANGED << wire, command, wait_arg, sc_pc, now, wait, tx_at, loop_start, deadline, chunks >>
    /\ UNCHANGED dvars
    /\ UNCHANGED << mvars, xvars >>

\* clear_buffer returns; the loop calls send_command(shell, cmd, wait=timeout)
\* for the first command
DrainDone ==
    /\ pc = "drain"
    /\ ~DrainGoesOn(pending)
    /\ shell' = TRUE
    /\ pc' = "loop"
    /\ command' = NextCmd(commands, idx)
    /\ wait_arg' = get_timeout(NextCmd(commands, idx))
    /\ sc_pc' = "call"
    /\ UNCHANGED << wire, drained, now, wait, tx_at, loop_start, deadline, pending, chunks >>
    /\ UNCHANGED << variant, commands, name, device, fails, attempt, sleeps, client, idx,
                    sent, returned, output, verdicts, probes, result >>
    /\ UNCHANGED << mvars, xvars >>

NextDrain ==
    \/ Settle
    \/ DrainRead
    \/ DrainDone
    \/ Transmit
    \/ BaseWait
    \/ PollRead
    \/ PollSleep(LateChunks)
    \/ PollExit

SpecDrain == InitDrain /\ [][NextDrain]_vars

\* ------------------------------------ the command loop over send_command
\* the commands the loop walks, one per wait policy among them
SeqPool ==
    << CommandPool[1], <<"enable", "ssh2">>, CommandPool[2], <<"save", "configuration">> >>

\* texts a command's captured chunks amount to
SeqOutputs == { OutPrompt, OutInvalid }

\* a device that answers during the base wait only
NoLateChunks == {0}

\* the loop calling send_command again while the last call is still polling
MayCall_Pipelined(scpc) == scpc \in {"idle", "poll"}

\* output = send_command(...) blocks: the loop body runs between two calls only
MayCall(scpc) == scpc = "idle"

\* the shell is open and drained; the command loop starts
InitSeq ==
    /\ variant = "v2"
    /\ commands = SubSeq(SeqPool, 1, Min(SeqCmds, Len(SeqPool)))
    /\ name = SWITCHES[1]
    /\ device = "fresh"
    /\ pc = "loop"
    /\ attempt = 1
    /\ sleeps = 0
    /\ fails = <<>>
    /\ client = "open"
    /\ shell = TRUE
    /\ idx = 0
    /\ sent = <<>>
    /\ returned = 0
    /\ output = <<>>
    /\ verdicts = <<>>
    /\ probes = <<>>
    /\ result = InitResult
    /\ MainIdle
    /\ OthersIdle
    /\ SendIdle

\* for cmd in commands: timeout = get_timeout(cmd);
\* send_command(shell, cmd, wait=timeout) is entered, output = ""
CallSend ==
    /\ pc = "loop"
    /\ MayCall(sc_pc)
    /\ idx < Len(commands)
    /\ command' = NextCmd(commands, idx)
    /\ wait_arg' = get_timeout(NextCmd(commands, idx))
    /\ chunks' = <<>>
    /\ sc_pc' = "call"
    /\ UNCHANGED << wire, drained, now, wait, tx_at, loop_start, deadline, pending >>
    /\ UNCHANGED dvars
    /\ UNCHANGED << mvars, xvars >>

\* send_command returned: the output is classified and recorded, and the loop
\* goes to its next iteration or to the verify step
LoopClassify ==
    /\ pc = "loop"
    /\ sc_pc = "returned"
    /\ \E out \in (IF chunks = <<>> THEN { <<>> } ELSE SeqOutputs) :
         LET next == AfterIteration(idx + 1, Len(commands), Verdict(variant, out))
         IN  /\ output' = out
             /\ verdicts' = Append(verdicts, Verdict(variant, out))
             /\ result' = RecordIteration(variant, result, command, out, Len(commands),
                                          next = "verify")
             /\ returned' = returned + 1
             /\ idx' = idx + 1
             /\ pc' = next
    /\ sc_pc' = "idle"
    /\ UNCHANGED << wire, drained, command, wait_arg, now, wait, tx_at, loop_start, deadline, pending,
                    chunks >>
    /\ UNCHANGED << variant, commands, name, device, fails, attempt, sleeps, client, shell, sent,
                    probes >>
    /\ UNCHANGED << mvars, xvars >>

NextSeq ==
    \/ CallSend
    \/ Transmit
    \/ BaseWait
    \/ PollRead
    \/ PollSleep(NoLateChunks)
    \/ PollExit
    \/ LoopClassify

SpecSeq == InitSeq /\ [][NextSeq]_vars

\* --------------------------------------- error summaries of long outputs
\* an error text of n tokens
LongText(n) == <<"Error", ":">> \o [ k \in 1..(n - 2) |-> "x" ]

\* error texts around the excerpt length, bare and wrapped in line breaks
LongOutputs ==
    UNION { { LongText(ExcerptLen - 1 + d), <<"\n">> \o LongText(ExcerptLen - 1 + d) \o <<"\n">> } :
            d \in 0..MaxOverrun }

\* device answers in the error-summary runs
ErrOutputs == { OutPrompt, OutMember, OutErrorExists, OutInvalid } \cup LongOutputs

\* v2 deploy_switch is entered for a fresh switch
InitErrors ==
    /\ variant = "v2"
    /\ commands \in { SubSeq(CommandPool, 1, n) : n \in 1..ErrCmds }
    /\ name = SWITCHES[1]
    /\ device = "fresh"
    /\ pc = "connect"
    /\ attempt = 0
    /\ sleeps = 0
    /\ fails = <<>>
    /\ client = "none"
    /\ shell = FALSE
    /\ idx = 0
    /\ sent = <<>>
    /\ returned = 0
    /\ output = <<>>
    /\ verdicts = <<>>
    /\ probes = <<>>
    /\ result = InitResult
    /\ MainIdle
    /\ OthersIdle
    /\ SendIdle

NextErrors ==
    \/ ConnectOk
    \/ ConnectFail(ConnectErrors)
    \/ OpenShell
    \/ OpenShellFail
    \/ LoopIteration(ErrOutputs)
    \/ LoopDrop
    \/ VerifyProbe(PingOutputs)
    \/ VerifyDrop

SpecErrors == InitErrors /\ [][NextErrors]_vars

\* ---------------------------------------------------------- main, batch runs
\* the head of SWITCHES the batch runs follow
Inventory == SubSeq(SWITCHES, 1, Min(MaxTargets, Len(SWITCHES)))

\* argument sets: v2 takes --dry-run and --switch NAME, exos takes none
ArgSets(v) ==
    IF v = "v2"
    THEN [ dry_run : BOOLEAN, switch : {NoSwitch, SWITCHES[2], "SW9-LAB"} ]
    ELSE { [ dry_run |-> FALSE, switch |-> NoSwitch ] }

\* main deploying the whole inventory whatever --switch names
SelectTargets_Everything(a) == Inventory

\* targets = SWITCHES, or the entries whose name equals args.switch
SelectTargets(a) ==
    IF a.switch = NoSwitch THEN Inventory
    ELSE SelectSeq(Inventory, LAMBDA s : s = a.switch)

\* main deploying whatever the flag says
MainMode_IgnoreDryRun(a) == "deploy"

\* if args.dry_run: ... return; otherwise the deployment loop
MainMode(a) == IF a.dry_run THEN "dry" ELSE "deploy"

\* the batch ending at the first failed device
MoreTargets_StopOnFailed(done, n, res) == done < n /\ res.status # "failed"

\* for switch in targets: whether another target follows
MoreTargets(done, n, res) == done < n

\* every slot of the report holding the one dict the deployments share
AppendResult_SharedSlot(rep, res) == [ k \in 1..(Len(rep) + 1) |-> res ]

\* report["results"].append(result), result being the dict this call built
AppendResult(rep, res) == Append(rep, res)

\* main demanding success of every device
ExitCode_SuccessOnly(rep) ==
    IF \A k \in 1..Len(rep) : rep[k].status = "success" THEN 0 ELSE 1

\* return 0 if failed == 0 else 1
ExitCode(rep) == IF \E k \in 1..Len(rep) : rep[k].status = "failed" THEN 1 ELSE 0

\* return 0 if all(results) else 1
DryExitCode(rs) == IF \A k \in 1..Len(rs) : rs[k] THEN 0 ELSE 1

\* test_connectivity: ssh_connect(host, USERNAME, PASSWORD, retries=2)
DRY_RETRIES == 2

\* answers to a configuration command in the batch runs
MainOutputs == { OutPrompt, OutInvalid }

\* answers to a ping probe in the batch runs: all packets back, or none
MainPings == { <<"3", "packets", "received">>, <<"0", "packets", "received">> }

\* reason client.connect() raises in the batch runs
MainConnectErrors == { "timed out" }

\* deploy_switch(switch) is entered for the switch named n
StartDeploy(n) ==
    /\ calls' = Append(calls, n)
    /\ name' = n
    /\ commands' = SubSeq(CommandPool, 1, MainCmds)
    /\ pc' = "connect"
    /\ attempt' = 0
    /\ sleeps' = 0
    /\ fails' = <<>>
    /\ client' = "none"
    /\ shell' = FALSE
    /\ idx' = 0
    /\ sent' = <<>>
    /\ returned' = 0
    /\ output' = <<>>
    /\ verdicts' = <<>>
    /\ probes' = <<>>
    /\ result' = NewResult(n)
    /\ UNCHANGED << variant, device >>

\* main is entered; no deploy_switch call is running
InitMain ==
    /\ variant \in {"v2", "exos"}
    /\ commands = <<>>
    /\ name = ""
    /\ device = "fresh"
    /\ pc = "idle"
    /\ attempt = 0
    /\ sleeps = 0
    /\ fails = <<>>
    /\ client = "none"
    /\ shell = FALSE
    /\ idx = 0
    /\ sent = <<>>
    /\ returned = 0
    /\ output = <<>>
    /\ verdicts = <<>>
    /\ probes = <<>>
    /\ result = NewResult("")
    /\ SendIdle
    /\ OthersIdle
    /\ args \in ArgSets(variant)
    /\ targets = <<>>
    /\ tpos = 0
    /\ calls = <<>>
    /\ report = <<>>
    /\ reach = <<>>
    /\ main_pc = "start"
    /\ exit_code = NONE

\* main up to its first call: the targets are selected; an unknown --switch
\* exits with 1; a dry run goes to the connectivity tests; otherwise
\* deploy_switch is called for the first target
MainStart ==
    /\ main_pc = "start"
    /\ LET tg == SelectTargets(args)
       IN  /\ targets' = tg
           /\ IF tg = <<>>
              THEN /\ exit_code' = 1
                   /\ main_pc' = "exit"
                   /\ UNCHANGED << dvars, calls >>
              ELSE IF MainMode(args) = "dry"
              THEN /\ main_pc' = "dry"
                   /\ UNCHANGED << dvars, calls, exit_code >>
              ELSE /\ main_pc' = "deploy"
                   /\ StartDeploy(tg[1])
                   /\ UNCHANGED exit_code
    /\ UNCHANGED << args, tpos, report, reach >>
    /\ UNCHANGED << svars, xvars >>

\* deploy_switch returned: report["results"].append(result), the pause, then
\* the next target, or the summary and the exit code
MainCollect ==
    /\ main_pc = "deploy"
    /\ pc = "done"
    /\ report' = AppendResult(report, result)
    /\ tpos' = tpos + 1
    /\ IF MoreTargets(tpos + 1, Len(targets), result)
       THEN /\ StartDeploy(targets[tpos + 2])
            /\ UNCHANGED << main_pc, exit_code >>
       ELSE /\ main_pc' = "exit"
            /\ exit_code' = ExitCode(AppendResult(report, result))
            /\ UNCHANGED << dvars, calls >>
    /\ UNCHANGED << args, targets, reach >>
    /\ UNCHANGED << svars, xvars >>

\* what main does once test_connectivity returned r for the current target
AfterTest(r) ==
    /\ reach' = Append(reach, r)
    /\ tpos' = tpos + 1
    /\ attempt' = 0
    /\ sleeps' = 0
    /\ IF tpos + 1 < Len(targets)
       THEN UNCHANGED << main_pc, exit_code >>
       ELSE /\ main_pc' = "exit"
            /\ exit_code' = DryExitCode(Append(reach, r))

\* test_connectivity: ssh_connect succeeds, client.close(), return True
TestConnectOk ==
    /\ main_pc = "dry"
    /\ attempt < DRY_RETRIES
    /\ client' = "closed"
    /\ AfterTest(TRUE)
    /\ UNCHANGED << variant, commands, name, device, fails, pc, shell, idx, sent, returned, output,
                    verdicts, probes, result >>
    /\ UNCHANGED << args, targets, calls, report >>
    /\ UNCHANGED << svars, xvars >>

\* test_connectivity: client.connect() raises; sleep and retry while attempts
\* remain, then ConnectionError is caught and False returned
TestConnectFail ==
    /\ main_pc = "dry"
    /\ attempt < DRY_RETRIES
    /\ IF attempt + 1 < DRY_RETRIES
       THEN /\ attempt' = attempt + 1
            /\ sleeps' = IF SleepAfter(attempt + 1, DRY_RETRIES) THEN sleeps + 1 ELSE sleeps
            /\ UNCHANGED << client, reach, tpos, main_pc, exit_code >>
       ELSE /\ client' = "none"
            /\ AfterTest(FALSE)
    /\ UNCHANGED << variant, commands, name, device, fails, pc, shell, idx, sent, returned, output,
                    verdicts, probes, result >>
    /\ UNCHANGED << args, targets, calls, report >>
    /\ UNCHANGED << svars, xvars >>

NextMain ==
    \/ MainStart
    \/ MainCollect
    \/ TestConnectOk
    \/ TestConnectFail
    \/ ConnectOk
    \/ ConnectFail(MainConnectErrors)
    \/ OpenShell
    \/ OpenShellFail
    \/ LoopIteration(MainOutputs)
    \/ LoopDrop
    \/ VerifyProbe(MainPings)
    \/ VerifyDrop

SpecMain == InitMain /\ [][NextMain]_vars

\* -------------------------------------------------------------- properties
Range(s) == { s[k] : k \in 1..Len(s) }

Last(s) == s[Len(s)]

HasWarningText(t) ==
    \/ Contains(t, <<"already", "exists">>)
    \/ Contains(t, <<"already", "a", "member">>)

HasErrorText(t) ==
    \/ Contains(t, <<"Error", ":">>)
    \/ Contains(t, <<"Invalid", "input">>)
    \/ Contains(t, <<"Cannot">>)
    \/ Contains(t, <<"Failed">>)
    \/ Contains(t, <<"Unknown", "command">>)

\* the run ended without an exception
RanToEnd == pc = "done" /\ result.status # "failed"

\* C1: the shell transmits the commands in the order build_commands returned
\* them: the k-th line transmitted is the k-th command, the loop has sent
\* exactly one line per finished iteration (none twice, none skipped), and a
\* run that reaches the verify step has transmitted the whole list first.
C1_SentInListOrder ==
    /\ \A k \in 1..Len(sent) : k <= Len(commands) => sent[k] = commands[k]
    /\ pc = "loop" => Len(sent) = idx
    /\ (pc = "verify" \/ RanToEnd) =>
          /\ Len(sent) >= Len(commands)
          /\ SubSeq(sent, 1, Len(commands)) = commands

C1_Witness ==
    /\ pc = "verify"
    /\ Len(commands) >= 3
    /\ sent = commands
    /\ "Error" \in Range(verdicts)

\* C2: an Error verdict never ends the command loop: whenever the loop is
\* left with the transport up, every command was sent and answered, and
\* commands_sent equals len(commands).
C2_LoopRunsPastErrors ==
    (pc = "verify" \/ RanToEnd) =>
        /\ returned = Len(commands)
        /\ Len(verdicts) = Len(commands)
        /\ result.commands_sent = Len(commands)

C2_Witness ==
    /\ pc = "verify"
    /\ variant = "v2"
    /\ Len(commands) >= 3
    /\ verdicts[1] = "Error"
    /\ result.commands_sent = Len(commands)

\* every ping probe of the verify step returned a passing text
AllProbesPassed ==
    /\ Len(probes) = Len(Probes(variant))
    /\ \A k \in 1..Len(probes) :
         IsPing(Probes(variant)[k]) =>
            \/ Contains(probes[k], <<"3", "packets", "received">>)
            \/ Contains(probes[k], <<"bytes", "from">>)

\* C3: the status deploy_switch returns is success if and only if no command
\* was classified Error and every verification probe passed.
C3_SuccessIffNoErrorAndProbesPass ==
    pc = "done" =>
        (result.status = "success" <=> ("Error" \notin Range(verdicts) /\ AllProbesPassed))

\* C4: the status deploy_switch returns is failed if and only if the session
\* never reached a usable state (no shell was ever opened on it).
C4_FailedIffNeverUsable ==
    pc = "done" => (result.status = "failed" <=> ~shell)

\* C5: in v2, commands_sent always equals the number of send_command calls of
\* the command loop that returned, and every recorded command error belongs to
\* one of those commands; after a drop behind k commands it is k.
C5_SentCountsReturned ==
    variant = "v2" =>
        /\ result.commands_sent = returned
        /\ returned = Len(verdicts)
        /\ \A k \in 1..Len(result.errors) :
             result.errors[k].kind = "CMD" =>
                \E j \in 1..returned : result.errors[k].cmd = commands[j]

C5_Witness ==
    /\ variant = "v2"
    /\ pc = "done"
    /\ result.status = "failed"
    /\ Len(commands) >= 4
    /\ returned = 2
    /\ result.commands_sent = 2

\* C6: a text holding both a warning marker and an error marker is treated
\* as BenignWarning and adds nothing to the errors list.
C6_WarningBeforeError ==
    (variant = "v2" /\ returned > 0 /\ HasWarningText(output) /\ HasErrorText(output)) =>
        /\ Last(verdicts) = "BenignWarning"
        /\ result.errors = <<>>

C6_Witness ==
    /\ variant = "v2"
    /\ returned = 1
    /\ output = <<"already", "exists", "Cannot">>
    /\ verdicts = <<"BenignWarning">>

\* C7: the verdict is one of three: Error exactly when the text holds no
\* warning marker and at least one of the five error markers (matched as
\* written, case included), Success exactly when it holds neither kind; an
\* errors entry is added exactly for Error.
C7_ThreeWayClassifier ==
    (variant = "v2" /\ returned > 0) =>
        /\ Last(verdicts) \in {"Success", "BenignWarning", "Error"}
        /\ Last(verdicts) = "Error" <=> (~HasWarningText(output) /\ HasErrorText(output))
        /\ Last(verdicts) = "Success" <=> (~HasWarningText(output) /\ ~HasErrorText(output))
        /\ Last(verdicts) = "Error" <=> Len(result.errors) = 1

C7_Witness ==
    /\ variant = "v2"
    /\ returned = 1
    /\ output = <<"ok", "failed">>
    /\ verdicts = <<"Success">>

\* C9: when all 3 connection attempts of v2 fail, the run is over with status
\* failed, commands_sent 0, no line transmitted and no probe run.
C9_UnreachableFails ==
    (variant = "v2" /\ client = "none" /\ attempt >= 3) =>
        /\ attempt = 3
        /\ pc = "done"
        /\ result.status = "failed"
        /\ result.commands_sent = 0
        /\ returned = 0
        /\ sent = <<>>
        /\ probes = <<>>

C9_Witness ==
    /\ variant = "v2"
    /\ client = "none"
    /\ attempt = 3
    /\ sleeps = 2
    /\ pc = "done"

\* C10: a 5-command run in which only item 3 answers "Invalid input" and the
\* session stays up records 5 results and ends with status partial.
C10_FiveItemsEndPartial ==
    ( /\ variant = "v2"
      /\ RanToEnd
      /\ Len(commands) = 5
      /\ verdicts = <<"Success", "Success", "Error", "Success", "Success">>
      /\ Len(result.errors) = 1
      /\ result.errors[1].cmd = commands[3]
      /\ Contains(result.errors[1].text, <<"Invalid", "input">>) ) =>
        /\ result.commands_sent = 5
        /\ result.status = "partial"


\* C8: send_command never returns before the base wait has elapsed since the
\* command was transmitted, and its polling loop ends within a fixed bound
\* however long the device keeps delivering chunks: it is never still polling
\* at the horizon MaxPoll.
C8_BoundedPolling ==
    /\ sc_pc = "returned" => now - tx_at[1] >= wait
    /\ sc_pc = "poll" => now - loop_start < MaxPoll

\* C11: ssh_connect makes at most `retries` attempts; between two attempts it
\* sleeps once, never after the last one: while connecting every failed
\* attempt was followed by a sleep, a successful attempt follows one sleep per
\* earlier failure, and when all attempts failed there were exactly `retries`
\* attempts and `retries - 1` sleeps before the connect failure was raised.
C11_RetryBudget ==
    /\ attempt <= Retries(variant)
    /\ pc = "connect" => (sleeps = attempt /\ attempt < Retries(variant))
    /\ client # "none" => sleeps = attempt - 1
    /\ (pc # "connect" /\ client = "none") =>
          /\ attempt = Retries(variant)
          /\ sleeps = Retries(variant) - 1
          /\ result.status = "failed"
          /\ Last(result.errors).kind = "EXC"

C11_Witness ==
    /\ variant = "v2"
    /\ pc = "done"
    /\ client = "none"
    /\ attempt = 3
    /\ sleeps = 2
    /\ result.errors = << ExcEntry("Could not connect") >>

\* C12: the session is closed whenever a run ends: on every path on which the
\* connection was opened, client.close() was called before the result is
\* returned.
C12_ClosedWhenDone ==
    (pc = "done" /\ client # "none") => client = "closed"

\* the probe at position k of the verify step returned a passing ping text
ProbePassed(k) ==
    /\ Len(probes) >= k
    /\ \/ Contains(probes[k], <<"3", "packets", "received">>)
       \/ Contains(probes[k], <<"bytes", "from">>)

\* C13: with the two ping probes of exos (gateway and core), a run that ran to
\* its end has status success when both passed and partial when one or none
\* passed.
C13_TwoProbeAggregation ==
    (variant = "exos" /\ RanToEnd) =>
        /\ (ProbePassed(4) /\ ProbePassed(5)) => result.status = "success"
        /\ ~(ProbePassed(4) /\ ProbePassed(5)) => result.status = "partial"

\* the gateway ping returned and its text holds no passing marker
GatewayInconclusive ==
    /\ Len(probes) >= GatewayProbe(variant)
    /\ ~Contains(probes[GatewayProbe(variant)], <<"3", "packets", "received">>)
    /\ ~Contains(probes[GatewayProbe(variant)], <<"bytes", "from">>)

\* C14: an inconclusive gateway ping is never reported as success: when its
\* text (the empty text included) holds neither "3 packets received" nor
\* "bytes from", a run that ends without an exception has status partial, and
\* no run has status success.
C14_InconclusiveIsPartial ==
    GatewayInconclusive =>
        /\ result.status # "success"
        /\ RanToEnd => result.status = "partial"

C14_Witness ==
    /\ RanToEnd
    /\ probes[GatewayProbe(variant)] = <<>>
    /\ result.errors = <<>>
    /\ result.status = "partial"

\* the commands whose iteration was classified Error, in order
RECURSIVE ErrorCmds(_)
ErrorCmds(k) ==
    IF k = 0 THEN <<>>
    ELSE IF verdicts[k] = "Error" THEN Append(ErrorCmds(k - 1), commands[k])
    ELSE ErrorCmds(k - 1)

\* send_command raised in the command loop
LoopDropped == pc = "done" /\ shell /\ returned < Len(commands)

\* C15: a transport drop in the command loop ends the run for that device:
\* once send_command raised for command k+1 the run is over, at most that
\* command was transmitted after the k answered ones, no probe was sent, and
\* the errors list still holds the entries of commands 1..k, in order, ahead
\* of the exception text.
C15_DropKeepsCollected ==
    LoopDropped =>
        /\ Len(sent) \in {returned, returned + 1}
        /\ \A k \in 1..Len(sent) : sent[k] = commands[k]
        /\ probes = <<>>
        /\ result.commands_sent = IF variant = "v2" THEN returned ELSE 0
        /\ Len(result.errors) = Len(ErrorCmds(returned)) + 1
        /\ \A k \in 1..Len(ErrorCmds(returned)) :
             /\ result.errors[k].kind = "CMD"
             /\ result.errors[k].cmd = ErrorCmds(returned)[k]
        /\ Last(result.errors).kind = "EXC"

C15_Witness ==
    /\ LoopDropped
    /\ variant = "v2"
    /\ returned = 2
    /\ verdicts = <<"Error", "Success">>
    /\ Len(result.errors) = 2
    /\ result.errors[1].cmd = commands[1]

\* C16: deploy_switch always returns a result: every exception ends in the
\* handler, a run that has not returned can always take a step, and the
\* returned status is success, partial or failed, never "unknown".
C16_AlwaysReturnsStatus ==
    /\ pc = "done" => result.status \in {"success", "partial", "failed"}
    /\ pc # "done" => (result.status = "unknown" /\ ENABLED Next)

C16_Witness ==
    /\ pc = "done"
    /\ variant = "exos"
    /\ result.status = "failed"
    /\ Len(probes) = 3

\* C19 as stated: re-running the command list against a device that answers
\* every command with an "already ..." message gives no Error verdict, an empty
\* errors list and status success.
C19_RerunIsSuccess ==
    (variant = "v2" /\ device = "configured" /\ RanToEnd) =>
        /\ "Error" \notin Range(verdicts)
        /\ result.errors = <<>>
        /\ result.status = "success"

\* C19 amended: against a device that answers every command with an "already
\* exists" or "already a member" message, no command is classified Error and
\* no command error is recorded; a run that ends without an exception has an
\* empty errors list, and status success when the gateway ping passed, partial
\* when it did not.
C19_RerunHasNoErrors ==
    (variant = "v2" /\ device = "configured") =>
        /\ "Error" \notin Range(verdicts)
        /\ \A k \in 1..Len(result.errors) : result.errors[k].kind # "CMD"
        /\ RanToEnd =>
             /\ result.errors = <<>>
             /\ result.commands_sent = Len(commands)
             /\ result.status = IF ProbePassed(1) THEN "success" ELSE "partial"

C19_Witness ==
    /\ variant = "v2"
    /\ device = "configured"
    /\ RanToEnd
    /\ Len(commands) >= 2
    /\ verdicts[1] = "BenignWarning"
    /\ result.status = "success"

\* C20: get_timeout returns the wait of the first key, in table order
\* ("configure ssh2 key" 25 s, "save configuration" 8 s, "enable ssh2" 3 s,
\* "default" 1.5 s), that is part of the command, and 1.5 s when none is.
C20_FirstKeyWins ==
    (sc_pc = "sleep" /\ wait_arg = NONE) =>
        wait = IF Contains(command, <<"configure", "ssh2", "key">>) THEN 250
               ELSE IF Contains(command, <<"save", "configuration">>) THEN 80
               ELSE IF Contains(command, <<"enable", "ssh2">>) THEN 30
               ELSE 15

C20_Witness ==
    /\ sc_pc = "sleep"
    /\ command = <<"default", "save", "configuration", "enable">>
    /\ wait = 80

\* C17: in a batch run deploy_switch is called once per target, in list order,
\* whatever the earlier devices returned; the report holds one result per
\* finished target, in target order, each naming its own device, and at the
\* end of main it holds one result for every target.
C17_OneResultPerTarget ==
    (~args.dry_run /\ main_pc \in {"deploy", "exit"}) =>
        /\ Len(report) = tpos
        /\ \A k \in 1..Len(report) : report[k].switch = targets[k]
        /\ Len(calls) <= Len(targets)
        /\ calls = SubSeq(targets, 1, Len(calls))
        /\ main_pc = "deploy" => (Len(calls) = tpos + 1 /\ name = targets[tpos + 1])
        /\ main_pc = "exit" => (calls = targets /\ Len(report) = Len(targets))

\* a batch of several targets has ended although its first device could not
\* be connected
C17_Witness ==
    /\ main_pc = "exit"
    /\ ~args.dry_run
    /\ Len(targets) >= 2
    /\ Len(report) = Len(targets)
    /\ report[1].status = "failed"
    /\ report[1].commands_sent = 0
    /\ report[2].status # "failed"

\* C18: a dry run only connects: each target's session is opened and closed at
\* once, no shell is invoked, no command and no probe is transmitted, and
\* deploy_switch is never called.
C18_DryRunOnlyConnects ==
    args.dry_run =>
        /\ calls = <<>>
        /\ pc = "idle"
        /\ ~shell
        /\ sent = <<>>
        /\ probes = <<>>
        /\ report = <<>>
        /\ client # "open"
        /\ Len(reach) = tpos
        /\ main_pc = "exit" => Len(reach) = Len(targets)

\* a dry run over several targets has ended with a reachable device, its
\* session closed
C18_Witness ==
    /\ args.dry_run
    /\ main_pc = "exit"
    /\ Len(targets) >= 2
    /\ Len(reach) = Len(targets)
    /\ \E k \in 1..Len(reach) : reach[k]
    /\ client = "closed"

\* the failure kind of a reason client.connect() raised
KindOf(why) == IF why = "Authentication failed." THEN "AuthFailed" ELSE "Unreachable"

\* the failure kind an entry of result["errors"] lets its reader tell
RecordedKind(entry) ==
    IF \E why \in ConnectErrors : entry.text = << why >>
    THEN KindOf(entry.text[1])
    ELSE "Untold"

\* connecting failed for good: the budget is used up and no client was returned
ConnectExhausted == pc = "done" /\ client = "none" /\ attempt = Retries(variant)

\* C21: when the retry budget is exhausted, the failure recorded for the device
\* tells whether the credentials were rejected (AuthFailed) or the device
\* could not be reached (Unreachable).
C21_RecordTellsFailureKind ==
    ConnectExhausted =>
        /\ result.errors # <<>>
        /\ RecordedKind(Last(result.errors)) = KindOf(Last(fails))

\* C22: whatever the reasons of the failed attempts (credentials rejected,
\* refused, timeout), ssh_connect makes one attempt per failure plus the
\* successful one, sleeps once after each failure that is not the last allowed
\* attempt, and stops only on the first success or with the budget used up:
\* attempts and delays depend on how many attempts failed, never on why.
C22_RetriesIgnoreFailureKind ==
    /\ Len(fails) <= Retries(variant)
    /\ attempt = Len(fails) + (IF client = "none" THEN 0 ELSE 1)
    /\ sleeps = IF variant = "v2" THEN Min(Len(fails), Retries(variant) - 1) ELSE 0
    /\ pc # "connect" => (client # "none" \/ Len(fails) = Retries(variant))

\* the third attempt succeeded after the credentials were rejected and a
\* timeout, with a sleep after each of the two failures
C22_Witness ==
    /\ variant = "v2"
    /\ fails = << "Authentication failed.", "timed out" >>
    /\ client = "open"
    /\ attempt = 3
    /\ sleeps = 2

\* the inventory has an entry named n
InInventory(n) == \E k \in 1..Len(Inventory) : Inventory[k] = n

\* C23: with --switch NAME only the inventory entry named NAME is deployed or
\* dry-run tested; when no entry has that name the program exits with code 1
\* without opening any connection.
C23_SingleTargetByName ==
    (args.switch # NoSwitch /\ main_pc # "start") =>
        /\ \A k \in 1..Len(targets) : targets[k] = args.switch
        /\ Len(targets) = (IF InInventory(args.switch) THEN 1 ELSE 0)
        /\ \A k \in 1..Len(calls) : calls[k] = args.switch
        /\ \A k \in 1..Len(report) : report[k].switch = args.switch
        /\ Len(calls) <= 1 /\ Len(reach) <= 1
        /\ ~InInventory(args.switch) =>
              /\ main_pc = "exit"
              /\ exit_code = 1
              /\ attempt = 0
              /\ client = "none"
              /\ calls = <<>>
              /\ reach = <<>>

\* a run with --switch naming the second inventory entry has ended with that
\* switch alone deployed
C23_Witness ==
    /\ args.switch = SWITCHES[2]
    /\ ~args.dry_run
    /\ main_pc = "exit"
    /\ calls = << SWITCHES[2] >>
    /\ Len(report) = 1
    /\ report[1].switch = SWITCHES[2]
    /\ report[1].commands_sent > 0

\* C24: in the polling loop a read only ever extends the deadline: the
\* deadline after a chunk was read is never earlier than the deadline before.
C24_ReadOnlyExtendsDeadline ==
    [][(sc_pc = "poll" /\ chunks' # chunks) => deadline' >= deadline]_vars

\* C25: the polling loop ends on quiescence: with no chunk read it returns
\* when the initial 2 s deadline elapses, after a chunk it returns when the
\* grace window following the last read elapses; and every chunk that became
\* available before the loop ended is in the returned output, in arrival
\* order.
C25_QuiescenceReturnsAll ==
    sc_pc = "returned" =>
        /\ chunks = <<>> => now = loop_start + PollDeadline
        /\ chunks # <<>> => (deadline <= now /\ now < deadline + PollInterval)
        /\ chunks = [ k \in 1..Len(chunks) |-> k ]
        /\ pending = <<>>

\* the lines of `sent` that are verification probes
ProbeLines == { k \in 1..Len(sent) : sent[k] \in Range(Probes(variant)) }

\* C26: deploy_switch follows Idle -> Connecting -> Executing -> Verifying ->
\* Done: nothing is sent before the connection succeeded and the shell is
\* open, a verification probe is sent only after the last command of the list
\* was attempted, the session is closed only after verification, and
\* connecting goes straight to the failed result when the retries are used up.
C26_DeviceStateMachine ==
    /\ pc = "connect" => (client = "none" /\ ~shell /\ sent = <<>>)
    /\ sent # <<>> => (client # "none" /\ shell)
    /\ pc \in {"loop", "verify"} => (client = "open" /\ shell)
    /\ (pc = "verify" \/ probes # <<>> \/ ProbeLines # {}) =>
          (idx = Len(commands) /\ returned = Len(commands))
    /\ \A k \in ProbeLines : k > Len(commands)
    /\ client = "closed" =>
          (pc = "done" /\ Len(probes) = Len(Probes(variant))
           /\ result.status \in {"success", "partial"})
    /\ ConnectExhausted =>
          (result.status = "failed" /\ ~shell /\ sent = <<>> /\ idx = 0 /\ probes = <<>>)

\* a device went through every state: its commands were sent, then the probes,
\* then the session was closed
C26_Witness ==
    /\ pc = "done"
    /\ client = "closed"
    /\ Len(commands) >= 2
    /\ sent = commands \o Probes(variant)
    /\ fails # <<>>

\* C27: no command is transmitted until clear_buffer has waited its settle
\* window and read until recv_ready() is false; what was buffered before the
\* drain finished (banner, unasked messages) is not in the output captured for
\* the first command.
C27_DrainBeforeFirstCommand ==
    /\ pc \in {"shell", "drain"} => (tx_at = <<>> /\ sc_pc = "idle" /\ ~shell)
    /\ tx_at # <<>> => \A k \in 1..Len(tx_at) : tx_at[k] >= SettleWindow
    /\ (pc = "loop" /\ sc_pc = "call") => pending = <<>>
    /\ \A k \in 1..Len(chunks) : chunks[k] # BANNER
    /\ \A k \in 1..Len(pending) : pending[k] = BANNER => pc = "drain"

\* the first command returned some output after a banner of several chunks
\* was drained
C27_Witness ==
    /\ sc_pc = "returned"
    /\ drained >= 2
    /\ Len(chunks) >= 2
    /\ tx_at # <<>>

\* C28: one outstanding command per session: command i+1 is not transmitted
\* before send_command for command i finished its wait-and-capture loop and
\* returned, and the output captured for command i is classified before
\* command i+1 is transmitted.
C28_OneOutstandingCommand ==
    /\ Len(tx_at) = Len(sent)
    /\ sent = SubSeq(commands, 1, Len(sent))
    /\ \A k \in 1..(Len(tx_at) - 1) : tx_at[k] < tx_at[k + 1]
    /\ returned = idx /\ Len(verdicts) = idx
    /\ sc_pc \in {"idle", "call"} => Len(tx_at) = idx
    /\ sc_pc \in {"sleep", "poll", "returned"} => Len(tx_at) = idx + 1
    /\ sc_pc \in {"sleep", "poll", "returned"} => command = commands[idx + 1]

\* the second command is in its capture loop, the first one's output having
\* been classified Error
C28_Witness ==
    /\ sc_pc = "poll"
    /\ Len(tx_at) = 2
    /\ idx = 1
    /\ verdicts = << "Error" >>
    /\ chunks # <<>>

\* the number of iterations among the first k that were classified c
CountVerdicts(c, k) == Cardinality({ j \in 1..k : verdicts[j] = c })

\* s is a prefix of t
IsPrefix(s, t) == Len(s) <= Len(t) /\ s = SubSeq(t, 1, Len(s))

\* an exception ended the run
EndedByException == pc = "done" /\ result.status = "failed"

\* C29: in the v2 command loop each command classified Error adds exactly one
\* entry to result["errors"], naming that command and carrying at most
\* ExcerptLen units of the stripped device output; BenignWarning and Success
\* add none; on return the list holds one entry per Error verdict, plus one
\* more only if an exception ended the run.
C29_ErrorsMatchVerdicts ==
    variant = "v2" =>
        /\ Len(result.errors) =
              CountVerdicts("Error", Len(verdicts)) + (IF EndedByException THEN 1 ELSE 0)
        /\ \A k \in 1..Len(ErrorCmds(Len(verdicts))) :
              /\ result.errors[k].kind = "CMD"
              /\ result.errors[k].cmd = ErrorCmds(Len(verdicts))[k]
              /\ Len(result.errors[k].text) <= ExcerptLen
        /\ (pc \in {"loop", "verify"} /\ probes = <<>> /\ verdicts # <<>>
            /\ Last(verdicts) = "Error") =>
              /\ Last(result.errors).cmd = sent[idx]
              /\ IsPrefix(Last(result.errors).text, Strip(output))
              /\ Len(Last(result.errors).text) = Min(ExcerptLen, Len(Strip(output)))
        /\ EndedByException => Last(result.errors).kind = "EXC"

\* after a benign warning, a command answered with an error text longer than
\* the excerpt, and its entry holds the first ExcerptLen units of it
C29_Witness ==
    /\ variant = "v2"
    /\ pc = "verify"
    /\ probes = <<>>
    /\ verdicts = << "BenignWarning", "Error" >>
    /\ Len(Strip(output)) > ExcerptLen
    /\ Len(result.errors) = 1
    /\ Len(result.errors[1].text) = ExcerptLen

\* C30: in configure_vlans_exos.deploy_switch a transport drop after k
\* commands completed returns a result that reports k commands sent.
C30_ExosDropReportsSent ==
    (variant = "exos" /\ LoopDropped) => result.commands_sent = returned

\* C31: deploying a device never changes the result already recorded for
\* another one: every step keeps the recorded results as they are, a
\* deployment adds exactly one entry when it returns, and each deployment
\* starts from a result of its own.
C31_RecordedResultsFrozen ==
    [][/\ Len(report') \in {Len(report), Len(report) + 1}
       /\ \A k \in 1..Len(report) : report'[k] = report[k]
       /\ Len(report') = Len(report) + 1 => (pc = "done" /\ report'[Len(report')] = result)
       /\ Len(calls') = Len(calls) + 1 => result' = NewResult(targets'[Len(calls')])
      ]_vars

\* the third device is being deployed and has a command error of its own
\* while the first two results, one failed, are recorded
C31_Witness ==
    /\ main_pc = "deploy"
    /\ Len(report) = 2
    /\ report[1].status = "failed"
    /\ report[2].status = "success"
    /\ name = targets[3]
    /\ result.errors # <<>>

\* no recorded result has status failed
NoneFailed == \A k \in 1..Len(report) : report[k].status # "failed"

\* every tested device was reachable
AllReachable == \A k \in 1..Len(reach) : reach[k]

\* C34 as stated: the exit code of main is 0 if and only if no device result
\* has status failed, and in dry-run mode if and only if every targeted
\* device was reachable.
C34_ExitZeroIffNoneFailed ==
    main_pc = "exit" =>
        IF args.dry_run THEN exit_code = 0 <=> AllReachable
        ELSE exit_code = 0 <=> NoneFailed

\* C34: when --switch names no inventory entry main exits with 1; otherwise
\* the exit code is 0 if and only if no device result has status failed
\* (partial results do not make it non-zero), and in dry-run mode if and only
\* if every targeted device was reachable.
C34_ExitCodeOfTargetedRun ==
    main_pc = "exit" =>
        /\ exit_code \in {0, 1}
        /\ targets = <<>> => exit_code = 1
        /\ (targets # <<>> /\ args.dry_run) =>
              (Len(reach) = Len(targets) /\ (exit_code = 0 <=> AllReachable))
        /\ (targets # <<>> /\ ~args.dry_run) =>
              (Len(report) = Len(targets) /\ (exit_code = 0 <=> NoneFailed))

\* a batch with a partial result and no failed one has ended with exit code 0
C34_Witness ==
    /\ main_pc = "exit"
    /\ ~args.dry_run
    /\ Len(report) >= 2
    /\ \E k \in 1..Len(report) : report[k].status = "partial"
    /\ NoneFailed
    /\ exit_code = 0

\* C36: ssh_connect stops at the first successful attempt: the step that
\* connects is one attempt with no sleep and leaves ssh_connect, and from then
\* on there is no further attempt, failure or sleep, however many attempts
\* failed before.
C36_StopsAtFirstSuccess ==
    [][/\ (client = "none" /\ client' # "none") =>
             (attempt' = attempt + 1 /\ sleeps' = sleeps /\ fails' = fails
              /\ pc' # "connect")
       /\ (client # "none" /\ main_pc = "none") =>
             (attempt' = attempt /\ sleeps' = sleeps /\ fails' = fails
              /\ pc' # "connect")
      ]_vars

\* the second attempt connected after one failure, and the run went on to its
\* command loop
C36_Witness ==
    /\ variant = "v2"
    /\ Len(fails) = 1
    /\ attempt = 2
    /\ sleeps = 1
    /\ client = "open"
    /\ pc = "loop"
    /\ idx >= 1

\* C40: send_command waits the caller's explicit wait when one is given and
\* the wait the policy table gives for the command only when none is given;
\* either way the command text followed by a line terminator is transmitted
\* exactly once, and the wait begins after it.
C40_ExplicitWaitElsePolicy ==
    /\ sc_pc = "call" => (wire = <<>> /\ tx_at = <<>>)
    /\ sc_pc # "call" =>
          /\ wire = command \o << "\n" >>
          /\ Len(tx_at) = 1
          /\ wait_arg # NONE => wait = wait_arg
          /\ wait_arg = NONE => wait = get_timeout(command)
    /\ sc_pc = "sleep" => now = tx_at[1]
    /\ sc_pc \in {"poll", "returned"} => loop_start = tx_at[1] + wait

\* save configuration was sent with an explicit wait of 0 and returned: the
\* 8 s of the policy table were not waited
C40_Witness ==
    /\ sc_pc = "returned"
    /\ command = << "save", "configuration" >>
    /\ wait_arg = 0
    /\ wait = 0
    /\ loop_start = tx_at[1]
    /\ wire = << "save", "configuration", "\n" >>

\* ------------------------------------ pfSenseSSHConfigurator.run_full_setup
\* the steps of run_full_setup, in the order of its try block
STEPS ==
    << "connect", "create_aliases", "configure_interface_ips", "create_firewall_rules", "configure_nat",
       "apply_configuration" >>

\* create_aliases: the aliases table, by name
ALIASES == << "NET_MGMT", "NET_CORP", "NET_DMZ", "NET_GUEST", "RFC1918_ALL", "PUBLIC_DNS" >>

\* configure_interface_ips: the interfaces table, by key
INTERFACES == << "wan", "lan", "opt1", "opt2", "opt3" >>

\* create_firewall_rules: the rules table, by descr
RULES ==
    << "MGMT Full Access", "CORP to DMZ", "CORP Internal", "CORP to Internet", "DMZ Internal",
       "GUEST Block RFC1918", "GUEST Allow DNS", "GUEST Allow Internet" >>

\* the scripts a step pushes, one send_command each
Scripts(step) ==
    CASE step = "create_aliases" -> ALIASES
      [] step = "configure_interface_ips" -> INTERFACES
      [] step = "create_firewall_rules" -> RULES
      [] step = "configure_nat" -> << "outbound NAT automatic" >>
      [] step = "apply_configuration" -> << "pfSsh.php playback filter reload" >>
      [] OTHER -> << >>

\* the rule the loop pushes after done rules, taken from the table's end
RuleAt_Reversed(done) == RULES[Len(RULES) - done]

\* for ... in rules: the rule the loop pushes after done rules
RuleAt(done) == RULES[done + 1]

\* the rule list after the firewall ran the script of rule descr:
\* $config['filter']['rule'][] = [...]
AppendRule(list, descr) == Append(list, descr)

\* the position in STEPS of a step
StepNo(step) == CHOOSE k \in 1..Len(STEPS) : STEPS[k] = step

\* where run_full_setup goes when a step returned
StepAfter(step) == IF StepNo(step) < Len(STEPS) THEN STEPS[StepNo(step) + 1] ELSE "finally"

\* a try block that swallows the exception and goes on with the next step
AfterRaise_GoOn(step) == StepAfter(step)

\* where run_full_setup goes when a step raised: try ... finally
AfterRaise(step) == "finally"

\* one send_command at a time: the next script waits for the reply
MayPush_Pipelined(fly) == TRUE

\* self._run_php returns only when send_command returned
MayPush(fly) == fly = 0

\* the exceptions ConnectHandler raises
PfConnectErrors == { "NetmikoAuthenticationException", "NetmikoTimeoutException", "OSError" }

\* the rule lists the firewall may hold before the run: none, one rule made
\* by hand, the rules of an earlier run
PriorRules == { << >>, << "Default allow LAN to any rule" >>, RULES }

\* no exception is under way
NoExc == [ type |-> "none", at |-> "none" ]

InitPf ==
    /\ variant = "v2"
    /\ commands = <<>>
    /\ name = ""
    /\ device = "fresh"
    /\ pc = "idle"
    /\ attempt = 0
    /\ sleeps = 0
    /\ fails = <<>>
    /\ client = "none"
    /\ shell = FALSE
    /\ idx = 0
    /\ sent = <<>>
    /\ returned = 0
    /\ output = <<>>
    /\ verdicts = <<>>
    /\ probes = <<>>
    /\ result = NewResult("")
    /\ SendIdle
    /\ MainIdle
    /\ VcIdle /\ SnIdle /\ VsIdle /\ BuildIdle
    /\ pf_pc = "start"
    /\ connection = "none"
    /\ steps_run = << >>
    /\ item = 0
    /\ inflight = 0
    /\ rule_list \in PriorRules
    /\ disconnects = 0
    /\ closes = 0
    /\ exc = NoExc

\* run_full_setup enters its try block: self.connect()
RunFullSetup ==
    /\ pf_pc = "start"
    /\ pf_pc' = STEPS[1]
    /\ steps_run' = << STEPS[1] >>
    /\ UNCHANGED << connection, item, inflight, rule_list, disconnects, closes, exc >>
    /\ UNCHANGED << dvars, svars, mvars, vcvars, snvars, vsvars, bvars >>

\* a step returned: the next statement of the try block is called
EnterNext(step) ==
    /\ pf_pc' = StepAfter(step)
    /\ steps_run' = IF StepAfter(step) = "finally" THEN steps_run ELSE Append(steps_run, StepAfter(step))
    /\ item' = 0

\* connect: ConnectHandler returned a connection
PfConnectOk ==
    /\ pf_pc = "connect"
    /\ connection' = "open"
    /\ EnterNext("connect")
    /\ UNCHANGED << inflight, rule_list, disconnects, closes, exc >>
    /\ UNCHANGED << dvars, svars, mvars, vcvars, snvars, vsvars, bvars >>

\* connect: ConnectHandler raised; connect re-raises (or never caught it)
PfConnectFail ==
    /\ pf_pc = "connect"
    /\ \E why \in PfConnectErrors : exc' = [ type |-> why, at |-> "connect" ]
    /\ pf_pc' = AfterRaise("connect")
    /\ UNCHANGED << connection, steps_run, item, inflight, rule_list, disconnects, closes >>
    /\ UNCHANGED << dvars, svars, mvars, vcvars, snvars, vsvars, bvars >>

\* a configuration step sends its next script; the firewall runs it
PushSend ==
    /\ pf_pc \in { STEPS[k] : k \in 2..Len(STEPS) }
    /\ MayPush(inflight)
    /\ item + inflight < Len(Scripts(pf_pc))
    /\ inflight' = inflight + 1
    /\ rule_list' = IF pf_pc = "create_firewall_rules"
                    THEN AppendRule(rule_list, RuleAt(item + inflight))
                    ELSE rule_list
    /\ UNCHANGED << pf_pc, connection, steps_run, item, disconnects, closes, exc >>
    /\ UNCHANGED << dvars, svars, mvars, vcvars, snvars, vsvars, bvars >>

\* send_command returned the script's output
PushReturn ==
    /\ pf_pc \in { STEPS[k] : k \in 2..Len(STEPS) }
    /\ inflight > 0
    /\ inflight' = inflight - 1
    /\ item' = item + 1
    /\ UNCHANGED << pf_pc, connection, steps_run, rule_list, disconnects, closes, exc >>
    /\ UNCHANGED << dvars, svars, mvars, vcvars, snvars, vsvars, bvars >>

\* send_command raised: the channel was gone before the script was sent, or
\* no reply came within read_timeout
PushRaise ==
    /\ pf_pc \in { STEPS[k] : k \in 2..Len(STEPS) }
    /\ \/ inflight = 0 /\ item < Len(Scripts(pf_pc)) /\ exc' = [ type |-> "OSError", at |-> pf_pc ]
       \/ inflight > 0 /\ exc' = [ type |-> "ReadTimeout", at |-> pf_pc ]
    /\ pf_pc' = AfterRaise(pf_pc)
    /\ steps_run' = IF AfterRaise(pf_pc) = "finally" THEN steps_run ELSE Append(steps_run, AfterRaise(pf_pc))
    /\ item' = IF AfterRaise(pf_pc) = "finally" THEN item ELSE 0
    /\ inflight' = IF AfterRaise(pf_pc) = "finally" THEN inflight ELSE 0
    /\ UNCHANGED << connection, rule_list, disconnects, closes >>
    /\ UNCHANGED << dvars, svars, mvars, vcvars, snvars, vsvars, bvars >>

\* the step's loop is over: the step returns
StepReturn ==
    /\ pf_pc \in { STEPS[k] : k \in 2..Len(STEPS) }
    /\ inflight = 0
    /\ item = Len(Scripts(pf_pc))
    /\ EnterNext(pf_pc)
    /\ UNCHANGED << connection, inflight, rule_list, disconnects, closes, exc >>
    /\ UNCHANGED << dvars, svars, mvars, vcvars, snvars, vsvars, bvars >>

\* finally: self.disconnect(), which closes the session if there is one;
\* then run_full_setup returns, or the exception goes on to the caller
PfDisconnect ==
    /\ pf_pc = "finally"
    /\ disconnects' = disconnects + 1
    /\ closes' = IF connection # "none" THEN closes + 1 ELSE closes
    /\ pf_pc' = IF exc = NoExc THEN "returned" ELSE "raised"
    /\ UNCHANGED << connection, steps_run, item, inflight, rule_list, exc >>
    /\ UNCHANGED << dvars, svars, mvars, vcvars, snvars, vsvars, bvars >>

\* finally: self.connection.disconnect() itself raised
PfDisconnectRaise ==
    /\ pf_pc = "finally"
    /\ connection # "none"
    /\ disconnects' = disconnects + 1
    /\ closes' = closes + 1
    /\ exc' = [ type |-> "OSError", at |-> "disconnect" ]
    /\ pf_pc' = "raised"
    /\ UNCHANGED << connection, steps_run, item, inflight, rule_list >>
    /\ UNCHANGED << dvars, svars, mvars, vcvars, snvars, vsvars, bvars >>

NextPf ==
    \/ RunFullSetup
    \/ PfConnectOk
    \/ PfConnectFail
    \/ PushSend
    \/ PushReturn
    \/ PushRaise
    \/ StepReturn
    \/ PfDisconnect
    \/ PfDisconnectRaise

SpecPf == InitPf /\ [][NextPf]_vars

\* ------------------------------------------------ properties of the pfSense run
\* run_full_setup is over: it returned or its exception reached the caller
PfOver == pf_pc \in { "returned", "raised" }

\* the position in the rule list of the first rule with this descr, the one
\* the firewall matches first; 0 if there is none
RulePos(descr) ==
    LET at == { k \in 1..Len(rule_list) : rule_list[k] = descr }
    IN  IF at = {} THEN 0 ELSE CHOOSE k \in at : \A h \in at : k <= h

\* C32: run_full_setup calls connect, create_aliases, configure_interface_ips,
\* create_firewall_rules, configure_nat, apply_configuration in that order;
\* once a step raised no later step is called, disconnect is called exactly
\* once, the exception reaches the caller (a run that returns had no
\* exception and ran every step), and when connect failed disconnect closes
\* nothing because there is no connection.
C32_StepsInOrderThenDisconnect ==
    /\ steps_run = SubSeq(STEPS, 1, Len(steps_run))
    /\ (exc # NoExc /\ exc.at # "disconnect") => steps_run # << >> /\ steps_run[Len(steps_run)] = exc.at
    /\ disconnects <= 1
    /\ PfOver => disconnects = 1
    /\ (PfOver /\ exc # NoExc) => pf_pc = "raised"
    /\ pf_pc = "returned" => exc = NoExc /\ steps_run = STEPS
    /\ (PfOver /\ exc.at = "connect") => connection = "none" /\ closes = 0

\* a step in the middle raised and the run is over; so is a run whose connect
\* raised
C32_Witness ==
    /\ PfOver
    /\ exc.at = "create_firewall_rules"
    /\ item = 5
    /\ closes = 1

\* C33: create_firewall_rules pushes the rules in table order, one at a time:
\* the rules this run added to the firewall's rule list are the first rules
\* of the table in table order, so GUEST Block RFC1918 is above GUEST Allow
\* DNS, which is above GUEST Allow Internet, and at most one push is under way
\* at any time.
C33_RulesPushedInTableOrder ==
    /\ inflight <= 1
    /\ \E prior \in PriorRules : \E n \in 0..Len(RULES) : rule_list = prior \o SubSeq(RULES, 1, n)
    /\ pf_pc = "create_firewall_rules" => Len(rule_list) >= item + inflight
    /\ RulePos("GUEST Allow DNS") > 0 => RulePos("GUEST Block RFC1918") \in 1..(RulePos("GUEST Allow DNS") - 1)
    /\ RulePos("GUEST Allow Internet") > 0 =>
           RulePos("GUEST Allow DNS") \in 1..(RulePos("GUEST Allow Internet") - 1)

\* every rule was pushed on a firewall that held a rule before, and the run
\* returned
C33_Witness ==
    /\ pf_pc = "returned"
    /\ Len(rule_list) = Len(RULES) + 1
    /\ rule_list[Len(rule_list)] = "GUEST Allow Internet"

\* ------------------------------------------------------------ build_commands
\* VLANS, in table order
VLANS ==
    << [ id |-> 10, name |-> "MGMT_NET" ], [ id |-> 20, name |-> "CORP_NET" ],
       [ id |-> 30, name |-> "DMZ_NET" ], [ id |-> 40, name |-> "GUEST_NET" ] >>

\* VLAN_NAMES = {v["id"]: v["name"] for v in VLANS}
VLAN_NAMES(vid) == VLANS[CHOOSE k \in 1..Len(VLANS) : VLANS[k].id = vid].name

\* a number as the f-string writes it
NumText(n) ==
    CASE n = 10 -> "10" [] n = 20 -> "20" [] n = 30 -> "30" [] n = 40 -> "40"
      [] n = 1 -> "1" [] n = 2 -> "2" [] n = 3 -> "3" [] n = 4 -> "4" [] n = 5 -> "5"
      [] n = 6 -> "6" [] n = 7 -> "7" [] n = 8 -> "8" [] n = 9 -> "9"

\* PORT_CONFIG: the dictionaries as sequences in insertion order
PORT_CONFIG ==
    [ n \in { SWITCHES[k] : k \in 1..Len(SWITCHES) } |->
        CASE n = "SW1-CORE" ->
                 [ tagged |-> << [ port |-> 1, vlans |-> << 10, 20, 30, 40 >> ],
                                 [ port |-> 2, vlans |-> << 10, 20, 30, 40 >> ],
                                 [ port |-> 3, vlans |-> << 10, 20, 30, 40 >> ] >>,
                   untagged |-> << [ port |-> 4, vid |-> 10 ] >>,
                   mgmt_ip |-> "10.10.10.11/24" ]
          [] n = "SW2-DIST" ->
                 [ tagged |-> << [ port |-> 1, vlans |-> << 10, 20, 30, 40 >> ],
                                 [ port |-> 2, vlans |-> << 10, 20, 30 >> ],
                                 [ port |-> 3, vlans |-> << 10, 20, 30 >> ] >>,
                   untagged |-> << >>,
                   mgmt_ip |-> "10.10.10.12/24" ]
          [] n = "SW3-DIST" ->
                 [ tagged |-> << [ port |-> 1, vlans |-> << 10, 20, 30, 40 >> ],
                                 [ port |-> 2, vlans |-> << 10, 30, 40 >> ],
                                 [ port |-> 3, vlans |-> << 10, 20, 30 >> ] >>,
                   untagged |-> << [ port |-> 4, vid |-> 40 ] >>,
                   mgmt_ip |-> "10.10.10.13/24" ]
          [] n = "SW4-ACCESS" ->
                 [ tagged |-> << [ port |-> 1, vlans |-> << 10, 20, 30 >> ],
                                 [ port |-> 2, vlans |-> << 10, 20, 30 >> ] >>,
                   untagged |-> << [ port |-> 3, vid |-> 20 ], [ port |-> 4, vid |-> 20 ],
                                   [ port |-> 5, vid |-> 20 ] >>,
                   mgmt_ip |-> "10.10.10.14/24" ]
          [] n = "SW5-ACCESS" ->
                 [ tagged |-> << [ port |-> 1, vlans |-> << 10, 30, 40 >> ],
                                 [ port |-> 2, vlans |-> << 10, 20, 30 >> ] >>,
                   untagged |-> << [ port |-> 3, vid |-> 30 ], [ port |-> 4, vid |-> 30 ] >>,
                   mgmt_ip |-> "10.10.10.15/24" ] ]

\* for vlan in VLANS: the create commands of the first n VLANs; the v2 script
\* skips MGMT_NET, which it expects to exist from bootstrap
RECURSIVE Creates(_, _)
Creates(v, n) ==
    IF n = 0 THEN << >>
    ELSE Creates(v, n - 1) \o
         ( IF v = "v2" /\ VLANS[n].name = "MGMT_NET" THEN << >>
           ELSE << << "create", "vlan", VLANS[n].name, "tag", NumText(VLANS[n].id) >> >> )

\* for vid in vlan_ids: one add-ports command per VLAN of a trunk port
TaggedOf(entry) ==
    [ k \in 1..Len(entry.vlans) |->
        << "configure", "vlan", VLAN_NAMES(entry.vlans[k]), "add", "ports", NumText(entry.port), "tagged" >> ]

\* for port, vlan_ids in cfg["tagged"].items()
RECURSIVE Tagged(_)
Tagged(entries) ==
    IF entries = << >> THEN << >> ELSE TaggedOf(Head(entries)) \o Tagged(Tail(entries))

\* for port, vid in cfg["untagged"].items()
Untagged(entries) ==
    [ k \in 1..Len(entries) |->
        << "configure", "vlan", VLAN_NAMES(entries[k].vid), "add", "ports", NumText(entries[k].port),
           "untagged" >> ]

\* NTP and syslog
Services ==
    << << "configure", "sntp-client", "primary", "10.10.10.1" >>,
       << "enable", "sntp-client" >>,
       << "configure", "syslog", "add", "10.10.10.1", "local0" >>,
       << "enable", "syslog" >> >>

\* a list that configures the ports before it creates the VLANs
build_commands_PortsFirst(v, cfg) ==
    IF v = "v2"
    THEN Tagged(cfg.tagged) \o Untagged(cfg.untagged) \o Creates(v, Len(VLANS)) \o Services
         \o << << "save", "configuration" >> >>
    ELSE << << "configure", "vlan", "Default", "delete", "ports", "all" >> >>
         \o Tagged(cfg.tagged) \o Untagged(cfg.untagged) \o Creates(v, Len(VLANS))
         \o << << "configure", "vlan", "MGMT_NET", "ipaddress", cfg.mgmt_ip >>,
               << "configure", "iproute", "add", "default", "10.10.10.1" >>,
               << "enable", "ssh2" >> >>
         \o Services
         \o << << "save", "configuration", "primary" >> >>

\* build_commands of the script v for the port configuration cfg
build_commands(v, cfg) ==
    IF v = "v2"
    THEN Creates(v, Len(VLANS)) \o Tagged(cfg.tagged) \o Untagged(cfg.untagged) \o Services
         \o << << "save", "configuration" >> >>
    ELSE Creates(v, Len(VLANS))
         \o << << "configure", "vlan", "Default", "delete", "ports", "all" >> >>
         \o Tagged(cfg.tagged) \o Untagged(cfg.untagged)
         \o << << "configure", "vlan", "MGMT_NET", "ipaddress", cfg.mgmt_ip >>,
               << "configure", "iproute", "add", "default", "10.10.10.1" >>,
               << "enable", "ssh2" >> >>
         \o Services
         \o << << "save", "configuration", "primary" >> >>

\* VLAN lists of a trunk port: the ones PORT_CONFIG uses and one without
\* MGMT_NET
VlanLists == { << 10, 20, 30, 40 >>, << 10, 20, 30 >>, << 10, 30, 40 >>, << 20 >> }

\* generated trunk tables: up to MaxPorts ports, numbered from 1
TaggedTables ==
    UNION { { [ k \in 1..n |-> [ port |-> k, vlans |-> f[k] ] ] : f \in [ 1..n -> VlanLists ] } : n \in 0..MaxPorts }

\* generated access tables: no port, or the port after the trunk ports
UntaggedTables(n) ==
    { << >> } \cup { << [ port |-> n + 1, vid |-> VLANS[k].id ] >> : k \in 1..Len(VLANS) }

\* the port configurations build_commands is called with: the entries of
\* PORT_CONFIG and the generated ones
BuildConfigs ==
    { PORT_CONFIG[n] : n \in DOMAIN PORT_CONFIG }
    \cup { [ tagged |-> t, untagged |-> u, mgmt_ip |-> "10.10.10.11/24" ] :
             t \in TaggedTables, u \in UntaggedTables(MaxPorts) }

InitBuild ==
    /\ variant = "v2"
    /\ commands = <<>>
    /\ name = ""
    /\ device = "fresh"
    /\ pc = "idle"
    /\ attempt = 0
    /\ sleeps = 0
    /\ fails = <<>>
    /\ client = "none"
    /\ shell = FALSE
    /\ idx = 0
    /\ sent = <<>>
    /\ returned = 0
    /\ output = <<>>
    /\ verdicts = <<>>
    /\ probes = <<>>
    /\ result = NewResult("")
    /\ SendIdle
    /\ MainIdle
    /\ PfIdle /\ VcIdle /\ SnIdle /\ VsIdle
    /\ bc_variant \in { "v2", "exos" }
    /\ bc_cfg \in BuildConfigs
    /\ built = << >>

\* commands = build_commands(switch_name)
Build ==
    /\ built = << >>
    /\ built' = build_commands(bc_variant, bc_cfg)
    /\ UNCHANGED << bc_variant, bc_cfg >>
    /\ UNCHANGED << dvars, svars, mvars, pfvars, vcvars, snvars, vsvars >>

NextBuild == Build

SpecBuild == InitBuild /\ [][NextBuild]_vars

\* ------------------------------------------- properties of build_commands
\* a "create vlan" command
IsCreate(c) == Len(c) >= 3 /\ c[1] = "create" /\ c[2] = "vlan"

\* a "configure vlan ... add ports" command
IsAddPorts(c) == Len(c) >= 5 /\ c[1] = "configure" /\ c[2] = "vlan" /\ c[4] = "add" /\ c[5] = "ports"

\* the save-configuration command
IsSave(c) == Len(c) >= 2 /\ c[1] = "save" /\ c[2] = "configuration"

\* the VLAN of command j is created by an earlier command of the list
CreatedBefore(j) == \E i \in 1..(j - 1) : IsCreate(built[i]) /\ built[i][3] = built[j][3]

\* C35 as stated: every create precedes every add-ports command, every VLAN
\* an add-ports command names is created earlier in the list, and the save
\* command is last.
C35_EveryNamedVlanCreated ==
    built # << >> =>
        /\ \A i, j \in 1..Len(built) : (IsCreate(built[i]) /\ IsAddPorts(built[j])) => i < j
        /\ \A j \in 1..Len(built) : IsAddPorts(built[j]) => CreatedBefore(j)
        /\ IsSave(built[Len(built)])

\* C35: every create precedes every add-ports command; every VLAN an
\* add-ports command names is created earlier in the list, except MGMT_NET in
\* the v2 list, which never creates it; the save command is last and the only
\* save command.
C35_CreatesFirstSaveLast ==
    built # << >> =>
        /\ \A i, j \in 1..Len(built) : (IsCreate(built[i]) /\ IsAddPorts(built[j])) => i < j
        /\ \A j \in 1..Len(built) :
               IsAddPorts(built[j]) => (CreatedBefore(j) <=> ~(bc_variant = "v2" /\ built[j][3] = "MGMT_NET"))
        /\ \A j \in 1..Len(built) : IsSave(built[j]) <=> j = Len(built)

\* the v2 list of SW3-DIST: MGMT_NET and GUEST_NET ports are added
C35_Witness ==
    /\ bc_variant = "v2"
    /\ bc_cfg = PORT_CONFIG["SW3-DIST"]
    /\ Len(built) = 3 + 10 + 1 + 5
    /\ \E j \in 1..Len(built) : IsAddPorts(built[j]) /\ built[j][3] = "GUEST_NET" /\ CreatedBefore(j)

\* ------------------------------------- VLANConfigurator.configure_switch
\* 'error': None
PyNone == "None"

\* the configuration phases with a list of items, in the order of the code
PHASES == << "vlans", "trunks", "access" >>

\* inventory values: VLAN ids, trunk ports, access ports
VlanIds == << "10", "20", "30" >>

TrunkPorts == << "Gi0/1", "Gi0/2", "Gi0/3" >>

AccessPorts == << "Gi0/10", "Gi0/11", "Gi0/12" >>

\* the switches configure_switch is called with: up to MaxItems items per list
VcSwitches ==
    { [ vlans |-> SubSeq(VlanIds, 1, a), trunk_ports |-> SubSeq(TrunkPorts, 1, b),
        access_ports |-> SubSeq(AccessPorts, 1, c) ] :
      a \in 0..Min(MaxItems, Len(VlanIds)), b \in 0..Min(MaxItems, Len(TrunkPorts)),
      c \in 0..Min(MaxItems, Len(AccessPorts)) }

\* the list a phase iterates
PhaseItems(sw, phase) ==
    CASE phase = "vlans" -> sw.vlans
      [] phase = "trunks" -> sw.trunk_ports
      [] phase = "access" -> sw.access_ports
      [] OTHER -> << >>

\* the result list a phase appends to
PhaseDone(res, phase) ==
    CASE phase = "vlans" -> res.vlans_created
      [] phase = "trunks" -> res.trunks_configured
      [] phase = "access" -> res.access_ports_configured
      [] OTHER -> << >>

\* the statement after a phase
PhaseAfter(phase) ==
    CASE phase = "connect" -> "vlans"
      [] phase = "vlans" -> "trunks"
      [] phase = "trunks" -> "access"
      [] phase = "access" -> "save"
      [] phase = "save" -> "disconnect"
      [] OTHER -> "returned"

\* result = {...} at the start of configure_switch
NewVcResult ==
    [ success |-> FALSE, vlans_created |-> << >>, trunks_configured |-> << >>,
      access_ports_configured |-> << >>, error |-> PyNone ]

\* result[...].append(item) after send_config_set returned
Listed(res, phase, it) ==
    CASE phase = "vlans" -> [ res EXCEPT !.vlans_created = Append(@, it) ]
      [] phase = "trunks" -> [ res EXCEPT !.trunks_configured = Append(@, it) ]
      [] phase = "access" -> [ res EXCEPT !.access_ports_configured = Append(@, it) ]

\* the exceptions netmiko raises and the text of the ones the last handler
\* catches
VcErrors == { "NetmikoTimeoutException", "NetmikoAuthenticationException", "Socket is closed", "" }

\* the error text the handlers record
VcErrorText(why) ==
    CASE why = "NetmikoTimeoutException" -> "Timeout connecting to host"
      [] why = "NetmikoAuthenticationException" -> "Authentication failed for host - check SSH keys"
      [] OTHER -> why

\* a handler that starts the result over
VcHandler_Fresh(res, why) == [ NewVcResult EXCEPT !.error = VcErrorText(why) ]

\* the except branches: result['error'] = error
VcHandler(res, why) == [ res EXCEPT !.error = VcErrorText(why) ]

InitVc ==
    /\ variant = "v2"
    /\ commands = <<>>
    /\ name = ""
    /\ device = "fresh"
    /\ pc = "idle"
    /\ attempt = 0
    /\ sleeps = 0
    /\ fails = <<>>
    /\ client = "none"
    /\ shell = FALSE
    /\ idx = 0
    /\ sent = <<>>
    /\ returned = 0
    /\ output = <<>>
    /\ verdicts = <<>>
    /\ probes = <<>>
    /\ result = NewResult("")
    /\ SendIdle
    /\ MainIdle
    /\ PfIdle /\ SnIdle /\ VsIdle /\ BuildIdle
    /\ vc_pc = "connect"
    /\ vc_switch \in VcSwitches
    /\ vc_result = NewVcResult
    /\ vc_tried = << >>

\* ConnectHandler(**conn_params) and connection.enable() returned
VcConnectOk ==
    /\ vc_pc = "connect"
    /\ vc_pc' = PhaseAfter(vc_pc)
    /\ UNCHANGED << vc_switch, vc_result, vc_tried >>
    /\ UNCHANGED << dvars, svars, mvars, pfvars, snvars, vsvars, bvars >>

\* one item of a phase: send_config_set returned, the item is listed
VcItemOk ==
    /\ vc_pc \in { PHASES[k] : k \in 1..Len(PHASES) }
    /\ Len(PhaseDone(vc_result, vc_pc)) < Len(PhaseItems(vc_switch, vc_pc))
    /\ LET it == PhaseItems(vc_switch, vc_pc)[Len(PhaseDone(vc_result, vc_pc)) + 1]
       IN  /\ vc_tried' = Append(vc_tried, << vc_pc, it >>)
           /\ vc_result' = Listed(vc_result, vc_pc, it)
    /\ UNCHANGED << vc_pc, vc_switch >>
    /\ UNCHANGED << dvars, svars, mvars, pfvars, snvars, vsvars, bvars >>

\* one item of a phase: send_config_set raised
VcItemRaise ==
    /\ vc_pc \in { PHASES[k] : k \in 1..Len(PHASES) }
    /\ Len(PhaseDone(vc_result, vc_pc)) < Len(PhaseItems(vc_switch, vc_pc))
    /\ LET it == PhaseItems(vc_switch, vc_pc)[Len(PhaseDone(vc_result, vc_pc)) + 1]
       IN  vc_tried' = Append(vc_tried, << vc_pc, it >>)
    /\ \E why \in VcErrors : vc_result' = VcHandler(vc_result, why)
    /\ vc_pc' = "returned"
    /\ UNCHANGED vc_switch
    /\ UNCHANGED << dvars, svars, mvars, pfvars, snvars, vsvars, bvars >>

\* the phase's list is empty or through: the next phase
VcPhaseOver ==
    /\ vc_pc \in { PHASES[k] : k \in 1..Len(PHASES) }
    /\ Len(PhaseDone(vc_result, vc_pc)) = Len(PhaseItems(vc_switch, vc_pc))
    /\ vc_pc' = PhaseAfter(vc_pc)
    /\ UNCHANGED << vc_switch, vc_result, vc_tried >>
    /\ UNCHANGED << dvars, svars, mvars, pfvars, snvars, vsvars, bvars >>

\* connection.send_command('write memory') returned
VcSave ==
    /\ vc_pc = "save"
    /\ vc_tried' = Append(vc_tried, << "save", "write memory" >>)
    /\ vc_pc' = PhaseAfter(vc_pc)
    /\ UNCHANGED << vc_switch, vc_result >>
    /\ UNCHANGED << dvars, svars, mvars, pfvars, snvars, vsvars, bvars >>

\* connection.disconnect() returned: result['success'] = True, return result
VcDisconnect ==
    /\ vc_pc = "disconnect"
    /\ vc_tried' = Append(vc_tried, << "disconnect", "" >>)
    /\ vc_result' = [ vc_result EXCEPT !.success = TRUE ]
    /\ vc_pc' = "returned"
    /\ UNCHANGED vc_switch
    /\ UNCHANGED << dvars, svars, mvars, pfvars, snvars, vsvars, bvars >>

\* connecting, saving or disconnecting raised
VcStepRaise ==
    /\ vc_pc \in { "connect", "save", "disconnect" }
    /\ vc_tried' = IF vc_pc = "connect" THEN vc_tried
                   ELSE Append(vc_tried, << vc_pc, IF vc_pc = "save" THEN "write memory" ELSE "" >>)
    /\ \E why \in VcErrors : vc_result' = VcHandler(vc_result, why)
    /\ vc_pc' = "returned"
    /\ UNCHANGED vc_switch
    /\ UNCHANGED << dvars, svars, mvars, pfvars, snvars, vsvars, bvars >>

NextVc ==
    \/ VcConnectOk
    \/ VcItemOk
    \/ VcItemRaise
    \/ VcPhaseOver
    \/ VcSave
    \/ VcDisconnect
    \/ VcStepRaise

SpecVc == InitVc /\ [][NextVc]_vars

\* ------------------------------- properties of VLANConfigurator.configure_switch
\* the items of a list, each with its phase
Tag(phase, its) == [ k \in 1..Len(its) |-> << phase, its[k] >> ]

\* what a run without an exception sends, in order
VcPlan(sw) ==
    Tag("vlans", sw.vlans) \o Tag("trunks", sw.trunk_ports) \o Tag("access", sw.access_ports)
    \o << << "save", "write memory" >>, << "disconnect", "" >> >>

\* the items the result lists, in phase order
VcListed(res) ==
    Tag("vlans", res.vlans_created) \o Tag("trunks", res.trunks_configured)
    \o Tag("access", res.access_ports_configured)

\* a sequence without its last element
AllButLast(s) == IF s = << >> THEN << >> ELSE SubSeq(s, 1, Len(s) - 1)

\* an entry of a configuration phase, not the save or the disconnect
IsItem(e) == e[1] \in { PHASES[k] : k \in 1..Len(PHASES) }

\* C37: configure_switch sends the VLANs, then the trunk ports, then the
\* access ports, then saves and disconnects; success is True exactly on a
\* run that went through all of it without an exception; after an exception
\* the result lists exactly the items sent before the one that raised, nothing
\* was sent after it, and error is set.
C37_PhasesInOrderAndResultKept ==
    vc_pc # "none" =>
        /\ vc_tried = SubSeq(VcPlan(vc_switch), 1, Len(vc_tried))
        /\ VcListed(vc_result) = SubSeq(vc_tried, 1, Len(VcListed(vc_result)))
        /\ vc_result.success <=> (vc_pc = "returned" /\ vc_result.error = PyNone)
        /\ vc_result.success => vc_tried = VcPlan(vc_switch)
        /\ vc_result.error # PyNone =>
               /\ vc_pc = "returned"
               /\ VcListed(vc_result) = SelectSeq(AllButLast(vc_tried), IsItem)
        /\ (vc_pc = "returned" /\ ~vc_result.success) => vc_result.error # PyNone

\* the second trunk port raised after both VLANs and the first trunk port
C37_Witness ==
    /\ vc_pc = "returned"
    /\ vc_result.error = "Socket is closed"
    /\ vc_result.vlans_created = << "10", "20" >>
    /\ vc_result.trunks_configured = << "Gi0/1" >>
    /\ vc_tried[Len(vc_tried)] = << "trunks", "Gi0/2" >>
    /\ Len(vc_switch.access_ports) = 2

\* ------------------------------- SyslogNTPConfigurator.configure_switch
\* self.switches, by hostname
SnSwitches == { "SW1-CORE", "SW2-CORP", "SW3-DMZ" }

\* the statements of the try block, in order
SnAfter(step) ==
    CASE step = "connect" -> "syslog"
      [] step = "syslog" -> "ntp"
      [] step = "ntp" -> "save"
      [] step = "save" -> "disconnect"
      [] OTHER -> "returned"

\* what the switch answers to a command set; the code stores it unread
SnOutputs == { << "SW1", "(config)#" >>, << "%", "Invalid", "input", "detected" >> }

\* result = {...} at the start of configure_switch
NewSnResult(host) ==
    [ hostname |-> host, success |-> FALSE, syslog_configured |-> FALSE, ntp_configured |-> FALSE,
      output |-> << >>, error |-> PyNone ]

\* a result that sets a phase's flag before the phase ran
SnAdvance_FlagAhead(res, step, out) ==
    CASE step = "syslog" -> [ res EXCEPT !.output = Append(@, << "Syslog Configuration", out >>),
                                         !.syslog_configured = TRUE ]
      [] step = "ntp" -> [ res EXCEPT !.output = Append(@, << "NTP Configuration", out >>),
                                      !.ntp_configured = TRUE ]
      [] step = "save" -> [ res EXCEPT !.output = Append(@, << "Save", out >>) ]
      [] step = "disconnect" -> [ res EXCEPT !.success = TRUE ]
      [] OTHER -> [ res EXCEPT !.ntp_configured = TRUE ]

\* the result after a statement of the try block returned out
SnAdvance(res, step, out) ==
    CASE step = "syslog" -> [ res EXCEPT !.output = Append(@, << "Syslog Configuration", out >>),
                                         !.syslog_configured = TRUE ]
      [] step = "ntp" -> [ res EXCEPT !.output = Append(@, << "NTP Configuration", out >>),
                                      !.ntp_configured = TRUE ]
      [] step = "save" -> [ res EXCEPT !.output = Append(@, << "Save", out >>) ]
      [] step = "disconnect" -> [ res EXCEPT !.success = TRUE ]
      [] OTHER -> res

\* the exceptions netmiko raises and the text of the ones the last handler
\* catches
SnErrors == { "NetmikoTimeoutException", "NetmikoAuthenticationException", "Socket is closed", "" }

\* the error text the handlers record
SnErrorText(why) ==
    CASE why = "NetmikoTimeoutException" -> "Timeout connecting to host"
      [] why = "NetmikoAuthenticationException" -> "Authentication failed for host"
      [] OTHER -> why

\* a handler that leaves error alone
SnHandler_Silent(res, why) == res

\* the except branches: result['error'] = error
SnHandler(res, why) == [ res EXCEPT !.error = SnErrorText(why) ]

InitSn ==
    /\ variant = "v2"
    /\ commands = <<>>
    /\ name = ""
    /\ device = "fresh"
    /\ pc = "idle"
    /\ attempt = 0
    /\ sleeps = 0
    /\ fails = <<>>
    /\ client = "none"
    /\ shell = FALSE
    /\ idx = 0
    /\ sent = <<>>
    /\ returned = 0
    /\ output = <<>>
    /\ verdicts = <<>>
    /\ probes = <<>>
    /\ result = NewResult("")
    /\ SendIdle
    /\ MainIdle
    /\ PfIdle /\ VcIdle /\ VsIdle /\ BuildIdle
    /\ sn_pc = "connect"
    /\ sn_switch \in SnSwitches
    /\ sn_result = NewSnResult(sn_switch)

\* the next statement of the try block returned
SnStepOk ==
    /\ sn_pc \in { "connect", "syslog", "ntp", "save", "disconnect" }
    /\ \E out \in SnOutputs : sn_result' = SnAdvance(sn_result, sn_pc, out)
    /\ sn_pc' = SnAfter(sn_pc)
    /\ UNCHANGED sn_switch
    /\ UNCHANGED << dvars, svars, mvars, pfvars, vcvars, vsvars, bvars >>

\* the next statement of the try block raised: a handler sets error, the
\* function returns the result
SnStepRaise ==
    /\ sn_pc \in { "connect", "syslog", "ntp", "save", "disconnect" }
    /\ \E why \in SnErrors : sn_result' = SnHandler(sn_result, why)
    /\ sn_pc' = "returned"
    /\ UNCHANGED sn_switch
    /\ UNCHANGED << dvars, svars, mvars, pfvars, vcvars, vsvars, bvars >>

NextSn == SnStepOk \/ SnStepRaise

SpecSn == InitSn /\ [][NextSn]_vars

\* C38: in every result configure_switch returns, success implies
\* ntp_configured, ntp_configured implies syslog_configured, and success is
\* False exactly when error is not None.
C38_FlagsMonotone ==
    sn_pc = "returned" =>
        /\ sn_result.success => sn_result.ntp_configured
        /\ sn_result.ntp_configured => sn_result.syslog_configured
        /\ ~sn_result.success <=> sn_result.error # PyNone

\* the save raised after syslog and NTP were configured
C38_Witness ==
    /\ sn_pc = "returned"
    /\ sn_result.syslog_configured
    /\ sn_result.ntp_configured
    /\ ~sn_result.success
    /\ sn_result.error = "Socket is closed"
    /\ Len(sn_result.output) = 2

\* -------------------------------------------------------- validate_switch
\* SWITCHES of the validation script: name and expected_vlans
VS_SWITCHES ==
    << [ name |-> "SW1-CORE", expected_vlans |-> << 10, 20, 30, 40 >> ],
       [ name |-> "SW2-DIST", expected_vlans |-> << 10, 20, 30, 40 >> ],
       [ name |-> "SW3-DIST", expected_vlans |-> << 10, 20, 30, 40 >> ],
       [ name |-> "SW4-ACCESS", expected_vlans |-> << 10, 20, 30 >> ],
       [ name |-> "SW5-ACCESS", expected_vlans |-> << 10, 30 >> ] >>

\* VLAN_NAMES of the validation script
VS_VLAN_NAMES(vid) ==
    CASE vid = 10 -> "MGMT_NET" [] vid = 20 -> "CORP" [] vid = 30 -> "DMZ" [] vid = 40 -> "GUEST"

\* the keys of result["checks"], in the order the checks run
CHECKS == << "vlans_present", "mgmt_ip", "default_gateway", "ping_gateway", "trunk_port1" >>

\* check_vlans: the expected VLANs of which neither the name nor the id is
\* in the output
check_vlans(out, expected) ==
    SelectSeq(expected,
              LAMBDA vid : ~Contains(out, << VS_VLAN_NAMES(vid) >>) /\ ~Contains(out, << NumText(vid) >>))

\* the condition under which check k passes on the output of its command
CheckPasses(k, out, sw) ==
    CASE k = 1 -> check_vlans(out, sw.expected_vlans) = << >>
      [] k = 2 -> Contains(out, << "10.10.10." >>)
      [] k = 3 -> Contains(out, << "10.10.10.1" >>)
      [] k = 4 -> Contains(out, << "3", "packets", "received" >>) \/ Contains(out, << "bytes", "from", "10.10.10.1" >>)
      [] k = 5 -> Contains(out, << "Tagged" >>) \/ Contains(out, << "MGMT" >>)

\* what the switch may answer to the command of check k
CheckOutputs(k) ==
    CASE k = 1 -> { << "MGMT_NET", "10", "CORP", "20", "DMZ", "30", "GUEST", "40" >>,
                    << "MGMT_NET", "10", "DMZ", "30" >>,
                    << "Default", "1" >> }
      [] k = 2 -> { << "Primary", "IP", ":", "10.10.10.", "11/24" >>, << "VLAN", "MGMT_NET" >> }
      [] k = 3 -> { << "Default", "Route", "10.10.10.1" >>, << "Total", "number", "of", "routes", "=", "0" >> }
      [] k = 4 -> { << "3", "packets", "transmitted", ",", "3", "packets", "received" >>,
                    << "16", "bytes", "from", "10.10.10.1" >>,
                    << "3", "packets", "transmitted", ",", "0", "packets", "received" >> }
      [] k = 5 -> { << "Tagged", "VLANs" >>, << "Port", "1", "MGMT" >>, << "Port", "1", "Untagged" >> }

\* result = {...} at the start of validate_switch
NewVsResult == [ checks |-> << >>, passed |-> 0, failed |-> 0 ]

\* a trunk-port check whose WARN counts as a failure
Record_WarnFails(res, k, ok) ==
    IF ok THEN [ res EXCEPT !.checks = Append(@, << CHECKS[k], "PASS" >>), !.passed = @ + 1 ]
    ELSE [ res EXCEPT !.checks = Append(@, << CHECKS[k], IF k = 5 THEN "WARN" ELSE "FAIL" >>), !.failed = @ + 1 ]

\* the two branches of check k: PASS adds to passed, FAIL adds to failed, the
\* WARN of the trunk-port check adds to neither
Record(res, k, ok) ==
    IF ok THEN [ res EXCEPT !.checks = Append(@, << CHECKS[k], "PASS" >>), !.passed = @ + 1 ]
    ELSE IF k = 5 THEN [ res EXCEPT !.checks = Append(@, << CHECKS[k], "WARN" >>) ]
    ELSE [ res EXCEPT !.checks = Append(@, << CHECKS[k], "FAIL" >>), !.failed = @ + 1 ]

\* except Exception as e: checks["connection"] = FAIL, failed += 1
VsHandler(res) == [ res EXCEPT !.checks = Append(@, << "connection", "FAIL" >>), !.failed = @ + 1 ]

InitVs ==
    /\ variant = "v2"
    /\ commands = <<>>
    /\ name = ""
    /\ device = "fresh"
    /\ pc = "idle"
    /\ attempt = 0
    /\ sleeps = 0
    /\ fails = <<>>
    /\ client = "none"
    /\ shell = FALSE
    /\ idx = 0
    /\ sent = <<>>
    /\ returned = 0
    /\ output = <<>>
    /\ verdicts = <<>>
    /\ probes = <<>>
    /\ result = NewResult("")
    /\ SendIdle
    /\ MainIdle
    /\ PfIdle /\ VcIdle /\ SnIdle /\ BuildIdle
    /\ vs_pc = "connect"
    /\ vs_switch \in { VS_SWITCHES[k] : k \in 1..Len(VS_SWITCHES) }
    /\ vs_check = 0
    /\ vs_result = NewVsResult

\* ssh_connect(host) returned a client
VsConnectOk ==
    /\ vs_pc = "connect"
    /\ vs_pc' = "shell"
    /\ UNCHANGED << vs_switch, vs_check, vs_result >>
    /\ UNCHANGED << dvars, svars, mvars, pfvars, vcvars, snvars, bvars >>

\* client.invoke_shell() returned; the banner is read away
VsShellOk ==
    /\ vs_pc = "shell"
    /\ vs_pc' = "check"
    /\ UNCHANGED << vs_switch, vs_check, vs_result >>
    /\ UNCHANGED << dvars, svars, mvars, pfvars, vcvars, snvars, bvars >>

\* the next check: its command is sent, the output is judged and recorded
VsCheck ==
    /\ vs_pc = "check"
    /\ vs_check < Len(CHECKS)
    /\ \E out \in CheckOutputs(vs_check + 1) :
           vs_result' = Record(vs_result, vs_check + 1, CheckPasses(vs_check + 1, out, vs_switch))
    /\ vs_check' = vs_check + 1
    /\ UNCHANGED << vs_pc, vs_switch >>
    /\ UNCHANGED << dvars, svars, mvars, pfvars, vcvars, snvars, bvars >>

\* connecting, opening the shell or the command of the next check raised
VsRaise ==
    /\ \/ vs_pc \in { "connect", "shell" }
       \/ vs_pc = "check" /\ vs_check < Len(CHECKS)
    /\ vs_result' = VsHandler(vs_result)
    /\ vs_pc' = "returned"
    /\ UNCHANGED << vs_switch, vs_check >>
    /\ UNCHANGED << dvars, svars, mvars, pfvars, vcvars, snvars, bvars >>

\* client.close() after the last check; return result
VsClose ==
    /\ vs_pc = "check"
    /\ vs_check = Len(CHECKS)
    /\ vs_pc' = "returned"
    /\ UNCHANGED << vs_switch, vs_check, vs_result >>
    /\ UNCHANGED << dvars, svars, mvars, pfvars, vcvars, snvars, bvars >>

NextVs == VsConnectOk \/ VsShellOk \/ VsCheck \/ VsRaise \/ VsClose

SpecVs == InitVs /\ [][NextVs]_vars

\* the entries of result["checks"] with this verdict
Verdicts(res, v) == Len(SelectSeq(res.checks, LAMBDA e : e[2] = v))

C39_WitnessException ==
    /\ vs_pc = "returned"
    /\ vs_check = 3
    /\ vs_result.passed = 2
    /\ vs_result.failed = 2

====
